---------------------------- MODULE Spec2Model ----------------------------
(***************************************************************************)
(* A model of the ConnectMyPool cloud client                               *)
(* (custom_components/connectmypool/api.py): the failure classifier, the   *)
(* transport wrapper _post, the polling cache of pool_config and           *)
(* pool_status, and the action lock of pool_action, run by concurrent      *)
(* coroutines on one event loop against a monotonic clock.                 *)
(***************************************************************************)
EXTENDS Integers, Sequences, FiniteSets, TLC

(***************************************************************************)
(* Bounds of the model.                                                    *)
(***************************************************************************)
\* The clock advances in steps of TickStep up to MaxClock.
TickStep == 150
MaxClock == 310
\* The server's data takes the values 1..MaxData.
MaxData == 2
\* Integer failure codes the server is modelled to send: -1..MaxCode.
MaxCode == 9
\* The channel's cycle has 1..MaxCycleLen modes: 0, 1, ... in this order.
MaxCycleLen == 3
\* The largest configured scan interval, in seconds.
MaxScanInterval == 120
\* The mappings handed to the diagnostics nest at most MaxDepth deep.
MaxDepth == 2
\* A device list of a config has at most MaxItems items.
MaxItems == 3
\* Where the clock stops when a whole fast-poll window is followed.
MaxWindowClock == 460

(***************************************************************************)
(* Program constants.                                                      *)
(***************************************************************************)
DEFAULT_SCAN_INTERVAL == 60
FAILURE_CODE_THROTTLED == 6
FAILURE_CODE_POOL_NOT_CONNECTED == 7
\* The default of the constructor's min_poll_seconds, and the value the
\* integration passes.
DEFAULT_MIN_POLL_SECONDS == 60
\* The argument of _mark_fast_poll in pool_action.
FAST_POLL_SECONDS == 300
\* A timestamp that is None.
NoTime == -1

Max(a, b) == IF a >= b THEN a ELSE b

(***************************************************************************)
(* JSON values and Python's conversions of them.  A string is a sequence   *)
(* of one-character strings, so that int() and str() are computed.         *)
(***************************************************************************)
JNull == [t |-> "null"]
JInt(n) == [t |-> "int", v |-> n]
JBool(b) == [t |-> "bool", v |-> b]
JStr(cs) == [t |-> "str", v |-> cs]
JList(xs) == [t |-> "list", v |-> xs]
JDict(f) == [t |-> "dict", v |-> f]
\* The empty mapping {}.
EmptyDict == JDict([k \in {} |-> JNull])
\* Python's None where a cached payload is expected.
None == [t |-> "none"]

Digits == <<"0", "1", "2", "3", "4", "5", "6", "7", "8", "9">>
IsDigit(c) == \E i \in 1..10 : Digits[i] = c
DigitVal(c) == (CHOOSE i \in 1..10 : Digits[i] = c) - 1

RECURSIVE NatToChars(_)
NatToChars(n) ==
    IF n < 10 THEN <<Digits[n + 1]>>
    ELSE NatToChars(n \div 10) \o <<Digits[(n % 10) + 1]>>

\* str(n) and f"{n}" of an int.
IntToChars(n) == IF n < 0 THEN <<"-">> \o NatToChars(-n) ELSE NatToChars(n)

RECURSIVE StripLeft(_)
StripLeft(cs) ==
    IF cs # <<>> /\ Head(cs) = " " THEN StripLeft(Tail(cs)) ELSE cs

RECURSIVE StripRight(_)
StripRight(cs) ==
    IF cs # <<>> /\ cs[Len(cs)] = " "
    THEN StripRight(SubSeq(cs, 1, Len(cs) - 1)) ELSE cs

RECURSIVE DigitsValue(_, _)
DigitsValue(cs, acc) ==
    IF cs = <<>> THEN acc
    ELSE DigitsValue(Tail(cs), 10 * acc + DigitVal(Head(cs)))

\* int(s) of a str: surrounding blanks stripped, an optional sign, then
\* one or more decimal digits; anything else is a ValueError.
ParseInt(cs) ==
    LET s == StripRight(StripLeft(cs))
        signed == s # <<>> /\ Head(s) \in {"-", "+"}
        ds == IF signed THEN Tail(s) ELSE s
    IN IF ds # <<>> /\ \A i \in 1..Len(ds) : IsDigit(ds[i])
       THEN [ok |-> TRUE,
             v |-> IF signed /\ Head(s) = "-"
                   THEN 0 - DigitsValue(ds, 0) ELSE DigitsValue(ds, 0)]
       ELSE [ok |-> FALSE, exc |-> "ValueError"]

\* int(x) of a JSON value.
PyInt(x) ==
    CASE x.t = "int" -> [ok |-> TRUE, v |-> x.v]
      [] x.t = "bool" -> [ok |-> TRUE, v |-> IF x.v THEN 1 ELSE 0]
      [] x.t = "str" -> ParseInt(x.v)
      [] OTHER -> [ok |-> FALSE, exc |-> "TypeError"]

\* str(x) of a JSON scalar.
PyStr(x) ==
    CASE x.t = "str" -> x.v
      [] x.t = "int" -> IntToChars(x.v)
      [] x.t = "bool" -> IF x.v THEN <<"T", "r", "u", "e">>
                         ELSE <<"F", "a", "l", "s", "e">>
      [] OTHER -> <<"N", "o", "n", "e">>

\* payload.get(key, default) of a mapping.
DictGet(d, key, default) == IF key \in DOMAIN d.v THEN d.v[key] ELSE default

(***************************************************************************)
(* Outcomes of a call: a returned payload or a raised exception.           *)
(***************************************************************************)
Ok(p) == [kind |-> "ok", payload |-> p]
Raise(e, m) == [kind |-> "raise", exc |-> e, msg |-> m]

\* The exception classes of api.py; every one derives from ConnectMyPoolError.
ApiErrors == {"ConnectMyPoolError", "ConnectMyPoolAuthError",
              "ConnectMyPoolThrottleError", "ConnectMyPoolNotConnectedError",
              "ConnectMyPoolActionError"}

\* f"{code}: {desc}"
FailureMessage(code, desc) == IntToChars(code) \o <<":", " ">> \o desc

UnknownError == <<"U", "n", "k", "n", "o", "w", "n", " ",
                  "e", "r", "r", "o", "r">>

\* A slip in the table: code 5 is not taken for an authentication failure.
FailureClass_without5(code) ==
    IF code \in {3, 4} THEN "ConnectMyPoolAuthError"
    ELSE IF code = FAILURE_CODE_THROTTLED THEN "ConnectMyPoolThrottleError"
    ELSE IF code = FAILURE_CODE_POOL_NOT_CONNECTED
         THEN "ConnectMyPoolNotConnectedError"
    ELSE "ConnectMyPoolActionError"

\* The class _raise_for_failure raises for an integer failure code.
FailureClass(code) ==
    IF code \in {3, 4, 5} THEN "ConnectMyPoolAuthError"
    ELSE IF code = FAILURE_CODE_THROTTLED THEN "ConnectMyPoolThrottleError"
    ELSE IF code = FAILURE_CODE_POOL_NOT_CONNECTED
         THEN "ConnectMyPoolNotConnectedError"
    ELSE "ConnectMyPoolActionError"

\* _raise_for_failure(payload): Ok(payload) stands for its plain return.
RaiseForFailure(payload) ==
    IF "failure_code" \notin DOMAIN payload.v THEN Ok(payload)
    ELSE LET code == PyInt(DictGet(payload, "failure_code", JInt(1)))
             desc == PyStr(DictGet(payload, "failure_description",
                                   JStr(UnknownError)))
         IN IF ~code.ok THEN Raise(code.exc, <<>>)
            ELSE Raise(FailureClass(code.v), FailureMessage(code.v, desc))


(***************************************************************************)
(* What the HTTP exchange of _post produces: an exception of the session,  *)
(* a body that is not JSON, or the parsed JSON body.                       *)
(***************************************************************************)
TimedOut == [t |-> "timeout"]
HttpError(status) == [t |-> "http", status |-> status]
ClientError == [t |-> "client_error"]
NotJson == [t |-> "not_json"]
Json(body) == [t |-> "json", body |-> body]

\* A slip in the normalisation: the empty list is left as it is.
NormalizeList_nonempty_only(body) ==
    IF body.t = "list" /\ body.v # <<>> THEN body.v[1] ELSE body

\* The list normalisation of _post: payload[0] if payload else {}.
NormalizeList(body) ==
    IF body.t = "list"
    THEN (IF body.v # <<>> THEN body.v[1] ELSE EmptyDict)
    ELSE body

\* A slip in _post: the timeout of the session is not caught.
Post_timeout_uncaught(answer) ==
    CASE answer.t = "timeout" -> Raise("TimeoutError", <<>>)
      [] answer.t = "http" ->
           Raise("ConnectMyPoolError",
                 <<"HTTP ">> \o IntToChars(answer.status)
                     \o <<" from ConnectMyPool">>)
      [] answer.t = "client_error" ->
           Raise("ConnectMyPoolError",
                 <<"Network error talking to ConnectMyPool">>)
      [] answer.t = "not_json" -> Raise("JSONDecodeError", <<>>)
      [] OTHER ->
           LET payload == NormalizeList(answer.body)
           IN IF payload.t # "dict"
              THEN Raise("ConnectMyPoolError", <<"Unexpected payload type">>)
              ELSE RaiseForFailure(payload)

\* _post(path, json_data), given what the exchange produced.
Post(answer) ==
    CASE answer.t = "timeout" ->
           Raise("ConnectMyPoolError", <<"Timeout talking to ConnectMyPool">>)
      [] answer.t = "http" ->
           Raise("ConnectMyPoolError",
                 <<"HTTP ">> \o IntToChars(answer.status)
                     \o <<" from ConnectMyPool">>)
      [] answer.t = "client_error" ->
           Raise("ConnectMyPoolError",
                 <<"Network error talking to ConnectMyPool">>)
      [] answer.t = "not_json" -> Raise("JSONDecodeError", <<>>)
      [] OTHER ->
           LET payload == NormalizeList(answer.body)
           IN IF payload.t # "dict"
              THEN Raise("ConnectMyPoolError", <<"Unexpected payload type">>)
              ELSE RaiseForFailure(payload)

(***************************************************************************)
(* The client and the coroutines that call it.                             *)
(***************************************************************************)
\* The coroutines that call the client concurrently: two that use every
\* operation, or three that use the write path alone.
Tasks == {1, 2}
ActionTasks == {1, 2, 3}

VARIABLES
    clock,              \* time.monotonic()
    min_poll_seconds,   \* self._min_poll_seconds
    last_status_at,     \* self._last_status_at (NoTime: None)
    last_config_at,     \* self._last_config_at (NoTime: None)
    cached_status,      \* self._cached_status
    cached_config,      \* self._cached_config
    fast_poll_until,    \* self._fast_poll_until (NoTime: None)
    action_lock,        \* self._action_lock: [locked, waiters]
    tasks,              \* each coroutine's position and local variables
    last,               \* the call that ended in the latest step, if one did
    action_done_at,     \* when the latest successful pool_action completed
    predates_action,    \* per read endpoint: the cache entry was stored
                        \* before the latest successful pool_action completed
    read_succeeded,     \* per read endpoint: a request of it has succeeded
    post_in,            \* the exchange handed to _post, when checked alone
    post_out,           \* and what _post made of it
    channel_mode,       \* the mode the channel is in at the controller
    cycle_len,          \* the length of the channel's cycle of modes
    coordinator_data,   \* coordinator.data: the latest status snapshot
    resolver,           \* the entity method that cycles the channel
    entry_options,      \* entry.options of the config entry
    update_interval,    \* coordinator.update_interval in seconds (NoTime:
                        \* no coordinator yet)
    setup,              \* async_setup_entry or the config flow's step
    last_update,        \* what the latest _async_update_data gave
    diag_in,            \* the mappings handed to the diagnostics
    diag_out,           \* and what the diagnostics returned
    names_in,           \* the config handed to _apply_unique_friendly_names
    names_out,          \* and the config as the function left it
    call_args,          \* each coroutine's pool_api_code, temperature_scale
    fetched_with,       \* per read endpoint: the arguments of the request
                        \* whose response is in the cache
    last_args,          \* the arguments of the call that ended in the
                        \* latest step
    climate             \* the heater's climate entity: its setting, the
                        \* mode it is asked for, the actions it has sent

vars == <<clock, min_poll_seconds, last_status_at, last_config_at,
          cached_status, cached_config, fast_poll_until, action_lock,
          tasks, last, action_done_at, predates_action, read_succeeded,
          post_in, post_out, channel_mode, cycle_len, coordinator_data,
          resolver, entry_options, update_interval, setup, last_update,
          diag_in, diag_out, names_in, names_out, call_args,
          fetched_with, last_args, climate>>
historyVars == <<action_done_at, predates_action, read_succeeded>>
cacheVars == <<last_status_at, last_config_at, cached_status, cached_config>>
postVars == <<post_in, post_out>>
cycleVars == <<channel_mode, cycle_len, coordinator_data, resolver>>
diagVars == <<diag_in, diag_out>>
nameVars == <<names_in, names_out>>
argVars == <<call_args, fetched_with, last_args>>
hostVars == <<entry_options, update_interval, setup, last_update, diagVars,
              nameVars, argVars, climate>>
entityVars == <<cycleVars, hostVars>>

NoOutcome == [kind |-> "none"]
Idle == [pc |-> "idle", op |-> "none", force |-> FALSE, now |-> NoTime]
NoCall == [op |-> "none", force |-> FALSE, how |-> "none",
           out |-> NoOutcome]

\* No entity method runs, and no snapshot has been taken.
NoResolver == [pc |-> "idle", op |-> "none", option |-> "", i |-> 0,
               stage |-> 0, cycles |-> 0, refreshes |-> 0,
               out |-> NoOutcome]
NoCycling ==
    /\ channel_mode = 0
    /\ cycle_len = 1
    /\ coordinator_data = None
    /\ resolver = NoResolver

\* No config entry is being set up, and no diagnostics are asked for.
NoSetup == [pc |-> "idle", op |-> "none", out |-> NoOutcome]
NoDiagnostics ==
    /\ diag_in = None
    /\ diag_out = None
NoNames ==
    /\ names_in = None
    /\ names_out = None
\* The arguments of the calls are not followed.
NoArgs ==
    /\ call_args = None
    /\ fetched_with = None
    /\ last_args = None
\* No climate entity is followed.
NoClimate == climate = None
NoHost ==
    /\ entry_options = EmptyDict
    /\ update_interval = NoTime
    /\ setup = NoSetup
    /\ last_update = NoOutcome
    /\ NoDiagnostics
    /\ NoNames
    /\ NoArgs
    /\ NoClimate

\* ConnectMyPoolApi.__init__
ApiInit(min_poll_arg) ==
    /\ min_poll_seconds = Max(1, min_poll_arg)
    /\ last_status_at = NoTime
    /\ last_config_at = NoTime
    /\ cached_status = None
    /\ cached_config = None
    /\ fast_poll_until = NoTime
    /\ action_lock = [locked |-> FALSE, waiters |-> <<>>]

Init ==
    /\ ApiInit(DEFAULT_MIN_POLL_SECONDS)
    /\ clock = 0
    /\ tasks = [t \in Tasks |-> Idle]
    /\ last = NoCall
    /\ action_done_at = NoTime
    /\ predates_action = [status |-> FALSE, config |-> FALSE]
    /\ read_succeeded = [status |-> FALSE, config |-> FALSE]
    /\ post_in = TimedOut
    /\ post_out = NoOutcome
    /\ NoCycling
    /\ NoHost

\* A slip: the fast-poll window is never taken for active.
FastPollActive_never == FALSE

\* _fast_poll_active()
FastPollActive == fast_poll_until # NoTime /\ clock < fast_poll_until

\* A slip: the deadline is counted from zero, not from the present moment.
MarkFastPoll_from_zero(seconds) == Max(0, seconds)

\* A slip: the deadline is set to the present moment.
MarkFastPoll_now(seconds) == clock

\* _mark_fast_poll(seconds): the new deadline.
MarkFastPoll(seconds) == clock + Max(0, seconds)

\* A slip in the freshness test: the age comparison is turned around.
CacheFresh_inverted(force, cached, last_at, now) ==
    /\ ~force
    /\ ~FastPollActive
    /\ cached # None
    /\ last_at # NoTime
    /\ (now - last_at) >= min_poll_seconds

\* A slip in the freshness test: force is not looked at.
CacheFresh_unforced(force, cached, last_at, now) ==
    /\ ~FastPollActive
    /\ cached # None
    /\ last_at # NoTime
    /\ (now - last_at) < min_poll_seconds

\* A slip in the freshness test: the fast-poll window is not looked at.
CacheFresh_ignores_window(force, cached, last_at, now) ==
    /\ ~force
    /\ cached # None
    /\ last_at # NoTime
    /\ (now - last_at) < min_poll_seconds

\* The freshness test of pool_config and pool_status, before any request.
CacheFresh(force, cached, last_at, now) ==
    /\ ~force
    /\ ~FastPollActive
    /\ cached # None
    /\ last_at # NoTime
    /\ (now - last_at) < min_poll_seconds

\* A slip: every request waits until the action lock is free.
Issue_locked(t, op, force, now) ==
    /\ ~action_lock.locked
    /\ tasks' = [tasks EXCEPT ![t] = [pc |-> "net", op |-> op,
                                      force |-> force, now |-> now]]

\* A request goes out on the session: the coroutine suspends in _post.
Issue(t, op, force, now) ==
    tasks' = [tasks EXCEPT ![t] = [pc |-> "net", op |-> op,
                                   force |-> force, now |-> now]]

\* The call of coroutine t ends: what it returns or raises is recorded.
Finish(t, how, out) ==
    /\ last' = [op |-> tasks[t].op, force |-> tasks[t].force, how |-> how,
                out |-> out]
    /\ tasks' = [tasks EXCEPT ![t] = Idle]

\* What the server may answer to a request: the requested data (as a
\* mapping, or wrapped in a list), a failure payload, or no answer in time.
Data(d) == JDict([k \in {"temperature"} |-> JInt(d)])
Failure(code) ==
    JDict([failure_code |-> code, failure_description |-> JStr(<<"x">>)])
ServerAnswers ==
    {Json(Data(d)) : d \in 1..MaxData}
    \cup {Json(JList(<<Data(1)>>))}
    \cup
    {Json(Failure(JInt(FAILURE_CODE_THROTTLED))), Json(Failure(JInt(3))),
     TimedOut}

\* The exchanges that fail in _post itself: no answer in time, a connection
\* error, a status that is not 2xx, and JSON that is no mapping after the
\* list normalisation.
TransportFailures ==
    {TimedOut, ClientError, HttpError(500), Json(JInt(5)),
     Json(JList(<<JInt(1)>>))}

\* Every kind of answer: the transport's failures and the failure payloads
\* of the four typed errors beside the data.
AllAnswers ==
    ServerAnswers
    \cup TransportFailures
    \cup {Json(Failure(JInt(FAILURE_CODE_POOL_NOT_CONNECTED))),
          Json(Failure(JInt(1)))}

\* A slip: the throttle error is swallowed when either cache is filled.
ThrottleMasked_either_cache(res, cached) ==
    /\ res.exc = "ConnectMyPoolThrottleError"
    /\ cached_status # None \/ cached_config # None

\* A slip: the except clause of the reads catches every error.
ThrottleMasked_any_error(res, cached) == cached # None

\* A slip in the fallback: the throttle error is swallowed without a look
\* at the cache.
ThrottleMasked_unchecked(res, cached) ==
    res.exc = "ConnectMyPoolThrottleError"

\* A slip in the fallback: the throttle error is never swallowed.
ThrottleMasked_never(res, cached) == FALSE

\* The except clause of pool_config and pool_status, for a request that
\* raised: the throttle error is swallowed when a cached payload exists.
ThrottleMasked(res, cached) ==
    /\ res.exc = "ConnectMyPoolThrottleError"
    /\ cached # None

\* pool_status up to its first suspension: the cache hit returns at once,
\* otherwise the request is issued.
PoolStatus(t, force) ==
    /\ tasks[t].pc = "idle"
    /\ LET now == clock
       IN IF CacheFresh(force, cached_status, last_status_at, now)
          THEN /\ last' = [op |-> "pool_status", force |-> force,
                           how |-> "hit",
                           out |-> Ok(cached_status)]
               /\ UNCHANGED tasks
          ELSE /\ Issue(t, "pool_status", force, now)
               /\ last' = NoCall
    /\ UNCHANGED <<clock, min_poll_seconds, cacheVars, fast_poll_until,
                   action_lock, historyVars, postVars>>

\* A slip: the fallback stamps the cached status as if it were new.
StatusReturn_fallback_restamps(t, answer) ==
    /\ tasks[t].pc = "net"
    /\ tasks[t].op = "pool_status"
    /\ LET res == Post(answer)
       IN IF res.kind = "ok"
          THEN /\ cached_status' = res.payload
               /\ last_status_at' = tasks[t].now
               /\ predates_action' = [predates_action EXCEPT !.status = FALSE]
               /\ read_succeeded' = [read_succeeded EXCEPT !.status = TRUE]
               /\ Finish(t, "net", res)
          ELSE /\ IF ThrottleMasked(res, cached_status)
                  THEN /\ Finish(t, "fallback", Ok(cached_status))
                       /\ last_status_at' = tasks[t].now
                  ELSE /\ Finish(t, "raise", res)
                       /\ UNCHANGED last_status_at
               /\ UNCHANGED <<cached_status, predates_action,
                              read_succeeded>>
    /\ UNCHANGED <<clock, min_poll_seconds, last_config_at, cached_config,
                   fast_poll_until, action_lock, action_done_at,
                   postVars>>

\* pool_status from the answer of its request to its end.
StatusReturn(t, answer) ==
    /\ tasks[t].pc = "net"
    /\ tasks[t].op = "pool_status"
    /\ LET res == Post(answer)
       IN IF res.kind = "ok"
          THEN /\ cached_status' = res.payload
               /\ last_status_at' = tasks[t].now
               /\ predates_action' = [predates_action EXCEPT !.status = FALSE]
               /\ read_succeeded' = [read_succeeded EXCEPT !.status = TRUE]
               /\ Finish(t, "net", res)
          ELSE /\ IF ThrottleMasked(res, cached_status)
                  THEN Finish(t, "fallback", Ok(cached_status))
                  ELSE Finish(t, "raise", res)
               /\ UNCHANGED <<cached_status, last_status_at, predates_action,
                              read_succeeded>>
    /\ UNCHANGED <<clock, min_poll_seconds, last_config_at, cached_config,
                   fast_poll_until, action_lock, action_done_at,
                   postVars>>

\* pool_config up to its first suspension.
PoolConfig(t, force) ==
    /\ tasks[t].pc = "idle"
    /\ LET now == clock
       IN IF CacheFresh(force, cached_config, last_config_at, now)
          THEN /\ last' = [op |-> "pool_config", force |-> force,
                           how |-> "hit",
                           out |-> Ok(cached_config)]
               /\ UNCHANGED tasks
          ELSE /\ Issue(t, "pool_config", force, now)
               /\ last' = NoCall
    /\ UNCHANGED <<clock, min_poll_seconds, cacheVars, fast_poll_until,
                   action_lock, historyVars, postVars>>

\* pool_config from the answer of its request to its end.
ConfigReturn(t, answer) ==
    /\ tasks[t].pc = "net"
    /\ tasks[t].op = "pool_config"
    /\ LET res == Post(answer)
       IN IF res.kind = "ok"
          THEN /\ cached_config' = res.payload
               /\ last_config_at' = tasks[t].now
               /\ predates_action' = [predates_action EXCEPT !.config = FALSE]
               /\ read_succeeded' = [read_succeeded EXCEPT !.config = TRUE]
               /\ Finish(t, "net", res)
          ELSE /\ IF ThrottleMasked(res, cached_config)
                  THEN Finish(t, "fallback", Ok(cached_config))
                  ELSE Finish(t, "raise", res)
               /\ UNCHANGED <<cached_config, last_config_at, predates_action,
                              read_succeeded>>
    /\ UNCHANGED <<clock, min_poll_seconds, last_status_at, cached_status,
                   fast_poll_until, action_lock, action_done_at,
                   postVars>>

\* A slip: the action is sent without regard to the lock.
LockFree_always == TRUE

\* asyncio.Lock.acquire without waiting: the lock is free and nobody queues.
LockFree == ~action_lock.locked /\ action_lock.waiters = <<>>

\* pool_action up to its first suspension: with the lock free it is taken
\* and the request is issued, otherwise the coroutine queues for the lock.
PoolAction(t) ==
    /\ tasks[t].pc = "idle"
    /\ IF LockFree
       THEN /\ action_lock' = [action_lock EXCEPT !.locked = TRUE]
            /\ Issue(t, "pool_action", FALSE, NoTime)
       ELSE /\ action_lock' = [action_lock EXCEPT
                                 !.waiters = Append(@, t)]
            /\ tasks' = [tasks EXCEPT ![t] = [Idle EXCEPT
                                 !.pc = "lock", !.op = "pool_action"]]
    /\ last' = NoCall
    /\ UNCHANGED <<clock, min_poll_seconds, cacheVars, fast_poll_until,
                   historyVars, postVars>>

\* The first waiter, woken by the release, takes the lock and issues its
\* request.
LockAcquired(t) ==
    /\ tasks[t].pc = "lock"
    /\ ~action_lock.locked
    /\ action_lock.waiters # <<>>
    /\ Head(action_lock.waiters) = t
    /\ action_lock' = [locked |-> TRUE, waiters |-> Tail(action_lock.waiters)]
    /\ Issue(t, "pool_action", FALSE, NoTime)
    /\ last' = NoCall
    /\ UNCHANGED <<clock, min_poll_seconds, cacheVars, fast_poll_until,
                   historyVars, postVars>>

\* A slip: pool_action takes over the except clause of the reads and
\* answers a throttle error with the cached status.
ActionReturn_masked(t, answer) ==
    /\ tasks[t].pc = "net"
    /\ tasks[t].op = "pool_action"
    /\ LET res == Post(answer)
       IN /\ IF res.kind = "ok"
             THEN /\ fast_poll_until' = MarkFastPoll(FAST_POLL_SECONDS)
                  /\ action_done_at' = clock
                  /\ predates_action' = [status |-> cached_status # None,
                                         config |-> cached_config # None]
                  /\ Finish(t, "net", res)
             ELSE /\ IF ThrottleMasked(res, cached_status)
                     THEN Finish(t, "fallback", Ok(cached_status))
                     ELSE Finish(t, "raise", res)
                  /\ UNCHANGED <<fast_poll_until, action_done_at,
                                 predates_action>>
    /\ action_lock' = [action_lock EXCEPT !.locked = FALSE]
    /\ UNCHANGED <<clock, min_poll_seconds, cacheVars, read_succeeded,
                   postVars>>

\* A slip: an accepted action throws the cached status away.
ActionReturn_invalidates(t, answer) ==
    /\ tasks[t].pc = "net"
    /\ tasks[t].op = "pool_action"
    /\ LET res == Post(answer)
       IN /\ IF res.kind = "ok"
             THEN /\ fast_poll_until' = MarkFastPoll(FAST_POLL_SECONDS)
                  /\ action_done_at' = clock
                  /\ predates_action' = [status |-> cached_status # None,
                                         config |-> cached_config # None]
                  /\ cached_status' = None
                  /\ last_status_at' = NoTime
                  /\ Finish(t, "net", res)
             ELSE /\ Finish(t, "raise", res)
                  /\ UNCHANGED <<fast_poll_until, action_done_at,
                                 predates_action, cached_status,
                                 last_status_at>>
    /\ action_lock' = [action_lock EXCEPT !.locked = FALSE]
    /\ UNCHANGED <<clock, min_poll_seconds, last_config_at, cached_config,
                   read_succeeded, postVars>>

\* A slip: the lock is released after an accepted action only.
ActionReturn_holds_after_failure(t, answer) ==
    /\ tasks[t].pc = "net"
    /\ tasks[t].op = "pool_action"
    /\ LET res == Post(answer)
       IN /\ IF res.kind = "ok"
             THEN /\ fast_poll_until' = MarkFastPoll(FAST_POLL_SECONDS)
                  /\ action_done_at' = clock
                  /\ predates_action' = [status |-> cached_status # None,
                                         config |-> cached_config # None]
                  /\ action_lock' = [action_lock EXCEPT !.locked = FALSE]
                  /\ Finish(t, "net", res)
             ELSE /\ Finish(t, "raise", res)
                  /\ UNCHANGED <<fast_poll_until, action_done_at,
                                 predates_action, action_lock>>
    /\ UNCHANGED <<clock, min_poll_seconds, cacheVars, read_succeeded,
                   postVars>>

\* pool_action from the answer of its request to its end; leaving the
\* async with block releases the lock on either path.
ActionReturn(t, answer) ==
    /\ tasks[t].pc = "net"
    /\ tasks[t].op = "pool_action"
    /\ LET res == Post(answer)
       IN /\ IF res.kind = "ok"
             THEN /\ fast_poll_until' = MarkFastPoll(FAST_POLL_SECONDS)
                  /\ action_done_at' = clock
                  /\ predates_action' = [status |-> cached_status # None,
                                         config |-> cached_config # None]
                  /\ Finish(t, "net", res)
             ELSE /\ Finish(t, "raise", res)
                  /\ UNCHANGED <<fast_poll_until, action_done_at,
                                 predates_action>>
    /\ action_lock' = [action_lock EXCEPT !.locked = FALSE]
    /\ UNCHANGED <<clock, min_poll_seconds, cacheVars, read_succeeded,
                   postVars>>

\* pool_action_status up to its suspension, and from the answer on.
PoolActionStatus(t) ==
    /\ tasks[t].pc = "idle"
    /\ Issue(t, "pool_action_status", FALSE, NoTime)
    /\ last' = NoCall
    /\ UNCHANGED <<clock, min_poll_seconds, cacheVars, fast_poll_until,
                   action_lock, historyVars, postVars>>

\* A slip: the status of an action, once fetched, ends the fast-poll
\* window.
ActionStatusReturn_clears_deadline(t, answer) ==
    /\ tasks[t].pc = "net"
    /\ tasks[t].op = "pool_action_status"
    /\ LET res == Post(answer)
       IN Finish(t, IF res.kind = "ok" THEN "net" ELSE "raise", res)
    /\ fast_poll_until' = NoTime
    /\ UNCHANGED <<clock, min_poll_seconds, cacheVars, action_lock,
                   historyVars, postVars>>

ActionStatusReturn(t, answer) ==
    /\ tasks[t].pc = "net"
    /\ tasks[t].op = "pool_action_status"
    /\ LET res == Post(answer)
       IN Finish(t, IF res.kind = "ok" THEN "net" ELSE "raise", res)
    /\ UNCHANGED <<clock, min_poll_seconds, cacheVars, fast_poll_until,
                   action_lock, historyVars, postVars>>

\* raise asyncio.CancelledError at the await of the coroutine.
Cancelled == Raise("CancelledError", <<>>)

\* A slip: the cancelled pool_action keeps the lock.
Cancel_keeps_lock(t) ==
    /\ tasks[t].pc \in {"net", "lock"}
    /\ action_lock' =
          IF tasks[t].pc = "lock"
          THEN [action_lock EXCEPT
                  !.waiters = SelectSeq(@, LAMBDA w : w # t)]
          ELSE action_lock
    /\ Finish(t, "raise", Cancelled)
    /\ UNCHANGED <<clock, min_poll_seconds, cacheVars, fast_poll_until,
                   historyVars, postVars>>

\* The call of coroutine t is cancelled where it is suspended: in _post,
\* where a pool_action leaves its async with block and so releases the
\* lock, or in the queue of the lock, which it leaves.
Cancel(t) ==
    /\ tasks[t].pc \in {"net", "lock"}
    /\ action_lock' =
          IF tasks[t].pc = "lock"
          THEN [action_lock EXCEPT
                  !.waiters = SelectSeq(@, LAMBDA w : w # t)]
          ELSE IF tasks[t].op = "pool_action"
          THEN [action_lock EXCEPT !.locked = FALSE]
          ELSE action_lock
    /\ Finish(t, "raise", Cancelled)
    /\ UNCHANGED <<clock, min_poll_seconds, cacheVars, fast_poll_until,
                   historyVars, postVars>>

\* Time passes.
Tick ==
    /\ clock + TickStep <= MaxClock
    /\ clock' = clock + TickStep
    /\ last' = NoCall
    /\ UNCHANGED <<min_poll_seconds, cacheVars, fast_poll_until, action_lock,
                   tasks, historyVars, postVars>>

Next ==
    \/ Tick /\ UNCHANGED entityVars
    \/ \E t \in DOMAIN tasks, force \in BOOLEAN : PoolStatus(t, force)
          /\ UNCHANGED entityVars
    \/ \E t \in DOMAIN tasks, force \in BOOLEAN : PoolConfig(t, force)
          /\ UNCHANGED entityVars
    \/ \E t \in DOMAIN tasks : PoolAction(t) /\ UNCHANGED entityVars
    \/ \E t \in DOMAIN tasks : LockAcquired(t) /\ UNCHANGED entityVars
    \/ \E t \in DOMAIN tasks : \E a \in ServerAnswers :
          \/ StatusReturn(t, a) /\ UNCHANGED entityVars
          \/ ConfigReturn(t, a) /\ UNCHANGED entityVars
          \/ ActionReturn(t, a) /\ UNCHANGED entityVars

Spec == Init /\ [][Next]_vars

(***************************************************************************)
(* The write path on its own: three coroutines call pool_action and        *)
(* pool_action_status.                                                     *)
(***************************************************************************)
ActionsInit ==
    /\ ApiInit(DEFAULT_MIN_POLL_SECONDS)
    /\ clock = 0
    /\ tasks = [t \in ActionTasks |-> Idle]
    /\ last = NoCall
    /\ action_done_at = NoTime
    /\ predates_action = [status |-> FALSE, config |-> FALSE]
    /\ read_succeeded = [status |-> FALSE, config |-> FALSE]
    /\ post_in = TimedOut
    /\ post_out = NoOutcome
    /\ NoCycling
    /\ NoHost

ActionsNext ==
    \/ Tick /\ UNCHANGED entityVars
    \/ \E t \in DOMAIN tasks : PoolAction(t) /\ UNCHANGED entityVars
    \/ \E t \in DOMAIN tasks : LockAcquired(t) /\ UNCHANGED entityVars
    \/ \E t \in DOMAIN tasks : PoolActionStatus(t) /\ UNCHANGED entityVars
    \/ \E t \in DOMAIN tasks : \E a \in AllAnswers :
          \/ ActionReturn(t, a) /\ UNCHANGED entityVars
          \/ ActionStatusReturn(t, a) /\ UNCHANGED entityVars

SpecActions == ActionsInit /\ [][ActionsNext]_vars

\* Every request of pool_action is answered, be it by the timeout of the
\* session, and the event loop runs the waiter that the release of the
\* lock has woken.
ActionsFairness ==
    \A t \in ActionTasks :
        /\ WF_vars(LockAcquired(t) /\ UNCHANGED entityVars)
        /\ WF_vars(\E a \in AllAnswers :
                      ActionReturn(t, a) /\ UNCHANGED entityVars)

SpecActionsLive == SpecActions /\ ActionsFairness

(***************************************************************************)
(* The write path with cancellation: any suspended call may be cancelled.  *)
(***************************************************************************)
CancelNext ==
    \/ Tick /\ UNCHANGED entityVars
    \/ \E t \in DOMAIN tasks : PoolAction(t) /\ UNCHANGED entityVars
    \/ \E t \in DOMAIN tasks : LockAcquired(t) /\ UNCHANGED entityVars
    \/ \E t \in DOMAIN tasks : PoolActionStatus(t) /\ UNCHANGED entityVars
    \/ \E t \in DOMAIN tasks : Cancel(t) /\ UNCHANGED entityVars
    \/ \E t \in DOMAIN tasks : \E a \in AllAnswers :
          \/ ActionReturn(t, a) /\ UNCHANGED entityVars
          \/ ActionStatusReturn(t, a) /\ UNCHANGED entityVars

SpecCancel == ActionsInit /\ [][CancelNext]_vars

(***************************************************************************)
(* Every operation under every kind of answer: two coroutines call the     *)
(* four operations at one moment of the clock, and each request meets      *)
(* data, any failure code of the classifier's table, or a failure of the   *)
(* transport.                                                              *)
(***************************************************************************)
CallTasks == {1, 2}

CallsInit ==
    /\ ApiInit(DEFAULT_MIN_POLL_SECONDS)
    /\ clock = 0
    /\ tasks = [t \in CallTasks |-> Idle]
    /\ last = NoCall
    /\ action_done_at = NoTime
    /\ predates_action = [status |-> FALSE, config |-> FALSE]
    /\ read_succeeded = [status |-> FALSE, config |-> FALSE]
    /\ post_in = TimedOut
    /\ post_out = NoOutcome
    /\ NoCycling
    /\ NoHost

CallsNext ==
    \/ \E t \in DOMAIN tasks, force \in BOOLEAN : PoolStatus(t, force)
          /\ UNCHANGED entityVars
    \/ \E t \in DOMAIN tasks, force \in BOOLEAN : PoolConfig(t, force)
          /\ UNCHANGED entityVars
    \/ \E t \in DOMAIN tasks : PoolAction(t) /\ UNCHANGED entityVars
    \/ \E t \in DOMAIN tasks : LockAcquired(t) /\ UNCHANGED entityVars
    \/ \E t \in DOMAIN tasks : PoolActionStatus(t) /\ UNCHANGED entityVars
    \/ \E t \in DOMAIN tasks : \E a \in AllAnswers :
          \/ StatusReturn(t, a) /\ UNCHANGED entityVars
          \/ ConfigReturn(t, a) /\ UNCHANGED entityVars
          \/ ActionReturn(t, a) /\ UNCHANGED entityVars
          \/ ActionStatusReturn(t, a) /\ UNCHANGED entityVars

SpecCalls == CallsInit /\ [][CallsNext]_vars

(***************************************************************************)
(* Three coroutines on one client within one poll interval: enough for an  *)
(* action in flight next to two reads in flight.                           *)
(***************************************************************************)
OverlapTasks == {1, 2, 3}

\* What the controller answers here: the data, or a throttle failure.
OverlapAnswers ==
    {Json(Data(1)), Json(Failure(JInt(FAILURE_CODE_THROTTLED)))}

OverlapInit ==
    /\ ApiInit(DEFAULT_MIN_POLL_SECONDS)
    /\ clock = 0
    /\ tasks = [t \in OverlapTasks |-> Idle]
    /\ last = NoCall
    /\ action_done_at = NoTime
    /\ predates_action = [status |-> FALSE, config |-> FALSE]
    /\ read_succeeded = [status |-> FALSE, config |-> FALSE]
    /\ post_in = TimedOut
    /\ post_out = NoOutcome
    /\ NoCycling
    /\ NoHost

OverlapNext ==
    \/ \E t \in DOMAIN tasks, force \in BOOLEAN : PoolStatus(t, force)
          /\ UNCHANGED entityVars
    \/ \E t \in DOMAIN tasks, force \in BOOLEAN : PoolConfig(t, force)
          /\ UNCHANGED entityVars
    \/ \E t \in DOMAIN tasks : PoolAction(t) /\ UNCHANGED entityVars
    \/ \E t \in DOMAIN tasks : LockAcquired(t) /\ UNCHANGED entityVars
    \/ \E t \in DOMAIN tasks : PoolActionStatus(t) /\ UNCHANGED entityVars
    \/ \E t \in DOMAIN tasks : \E a \in OverlapAnswers :
          \/ StatusReturn(t, a) /\ UNCHANGED entityVars
          \/ ConfigReturn(t, a) /\ UNCHANGED entityVars
          \/ ActionReturn(t, a) /\ UNCHANGED entityVars
          \/ ActionStatusReturn(t, a) /\ UNCHANGED entityVars

SpecOverlap == OverlapInit /\ [][OverlapNext]_vars

(***************************************************************************)
(* Reads around a write and its fast-poll window: two coroutines call the  *)
(* reads and pool_action on a client built with a poll interval of 60 or   *)
(* of 300 seconds, while the clock runs past the end of the window.        *)
(***************************************************************************)
\* The min_poll_seconds the client is built with: the integration's value
\* and the length of the fast-poll window.
MinPollArgs == {DEFAULT_MIN_POLL_SECONDS, FAST_POLL_SECONDS}

WindowInit ==
    /\ \E arg \in MinPollArgs : ApiInit(arg)
    /\ clock = 0
    /\ tasks = [t \in Tasks |-> Idle]
    /\ last = NoCall
    /\ action_done_at = NoTime
    /\ predates_action = [status |-> FALSE, config |-> FALSE]
    /\ read_succeeded = [status |-> FALSE, config |-> FALSE]
    /\ post_in = TimedOut
    /\ post_out = NoOutcome
    /\ NoCycling
    /\ NoHost

\* Time passes.
WindowTick ==
    /\ clock + TickStep <= MaxWindowClock
    /\ clock' = clock + TickStep
    /\ last' = NoCall
    /\ UNCHANGED <<min_poll_seconds, cacheVars, fast_poll_until, action_lock,
                   tasks, historyVars, postVars>>

WindowNext ==
    \/ WindowTick /\ UNCHANGED entityVars
    \/ \E t \in DOMAIN tasks : PoolStatus(t, FALSE) /\ UNCHANGED entityVars
    \/ \E t \in DOMAIN tasks : PoolConfig(t, FALSE) /\ UNCHANGED entityVars
    \/ \E t \in DOMAIN tasks : PoolAction(t) /\ UNCHANGED entityVars
    \/ \E t \in DOMAIN tasks : LockAcquired(t) /\ UNCHANGED entityVars
    \/ \E t \in DOMAIN tasks : \E a \in OverlapAnswers :
          \/ StatusReturn(t, a) /\ UNCHANGED entityVars
          \/ ConfigReturn(t, a) /\ UNCHANGED entityVars
          \/ ActionReturn(t, a) /\ UNCHANGED entityVars

SpecWindow == WindowInit /\ [][WindowNext]_vars

(***************************************************************************)
(* The four operations of the client while time passes: two coroutines     *)
(* call the reads, pool_action and pool_action_status, and an accepted     *)
(* action may follow an earlier one at a later time (SpecDeadline).        *)
(***************************************************************************)
\* What the controller answers here: the data, a throttle failure, or
\* nothing in time.
DeadlineAnswers == OverlapAnswers \cup {TimedOut}

DeadlineNext ==
    \/ Tick /\ UNCHANGED entityVars
    \/ \E t \in DOMAIN tasks : PoolStatus(t, FALSE) /\ UNCHANGED entityVars
    \/ \E t \in DOMAIN tasks : PoolConfig(t, FALSE) /\ UNCHANGED entityVars
    \/ \E t \in DOMAIN tasks : PoolAction(t) /\ UNCHANGED entityVars
    \/ \E t \in DOMAIN tasks : LockAcquired(t) /\ UNCHANGED entityVars
    \/ \E t \in DOMAIN tasks : PoolActionStatus(t) /\ UNCHANGED entityVars
    \/ \E t \in DOMAIN tasks : \E a \in DeadlineAnswers :
          \/ StatusReturn(t, a) /\ UNCHANGED entityVars
          \/ ConfigReturn(t, a) /\ UNCHANGED entityVars
          \/ ActionReturn(t, a) /\ UNCHANGED entityVars
          \/ ActionStatusReturn(t, a) /\ UNCHANGED entityVars

SpecDeadline == CallsInit /\ [][DeadlineNext]_vars

(***************************************************************************)
(* The entities that cycle a channel to a mode (select.py, switch.py):     *)
(* ChannelModeSelect.async_select_option and ChannelSwitch.async_turn_on   *)
(* and async_turn_off, on top of the client and of the coordinator, with   *)
(* a controller whose channel advances by one mode of its cycle on every   *)
(* accepted cycle action.                                                  *)
(***************************************************************************)
\* CHANNEL_MODES of const.py: the label of each mode number.
CHANNEL_MODES ==
    [m \in 0..5 |->
        <<"Off", "Auto", "On", "Low Speed", "Medium Speed", "High Speed">>
            [m + 1]]

\* A slip: the loops run once more.
CYCLE_ATTEMPTS_one_more == 8 + 1

\* range(8): the iterations of the cycling loops.
CYCLE_ATTEMPTS == 8

\* The channel of the entity, and the one channel of the status payload.
channel_number == 1

\* The status payload of the controller with the channel in the given mode.
StatusOf(mode) ==
    JDict([k \in {"channels"} |->
             JList(<<JDict([channel_number |-> JInt(channel_number),
                            mode |-> JInt(mode)])>>)])

\* A config payload, as pool_config caches it during the setup.
ConfigOf ==
    JDict([k \in {"channels"} |->
             JList(<<JDict([channel_number |-> JInt(channel_number)])>>)])

\* The loop of _find_mode over the channels of the snapshot: the mode of
\* the first channel with the entity's number, None without one; int() of
\* the channel number is outside the try and raises.
RECURSIVE FindModeIn(_)
FindModeIn(cs) ==
    IF cs = <<>> THEN None
    ELSE LET c == Head(cs)
             num == PyInt(DictGet(c, "channel_number", JNull))
             mode == PyInt(DictGet(c, "mode", JNull))
         IN IF ~num.ok THEN Raise(num.exc, <<>>)
            ELSE IF num.v = channel_number
                 THEN (IF mode.ok THEN JInt(mode.v) ELSE None)
                 ELSE FindModeIn(Tail(cs))

\* _find_mode(): self.data is coordinator.data or {}, the channels are
\* data.get("channels") or [].
FindMode ==
    LET data == IF coordinator_data = None THEN EmptyDict
                ELSE coordinator_data
        channels == DictGet(data, "channels", JNull)
    IN IF channels.t = "list" THEN FindModeIn(channels.v) ELSE None

\* next((k for k, v in CHANNEL_MODES.items() if v == option), None)
DesiredMode(option) ==
    IF \E m \in DOMAIN CHANNEL_MODES : CHANNEL_MODES[m] = option
    THEN JInt(CHOOSE m \in DOMAIN CHANNEL_MODES : CHANNEL_MODES[m] = option)
    ELSE None

\* raise HomeAssistantError(...)
HomeAssistantError(msg) == Raise("HomeAssistantError", msg)

UnsupportedOption(option) == <<"Unsupported option: ", option>>
CouldNotReach(option) ==
    <<"Couldn't reach mode '", option,
      "' by cycling. This channel may not support that mode.">>
CouldNotTurnOff == <<"Couldn't turn channel off (cycle did not reach Off).">>
CouldNotTurnOn ==
    <<"Couldn't turn channel on (cycle did not reach a non-off mode).">>

\* The two tests of async_turn_on: the mode is one of desired_on, or it is
\* known and not Off.
ModeIsOn(mode) ==
    \/ mode \in {JInt(m) : m \in {2, 3, 4, 5}}
    \/ (mode # None /\ mode # JInt(0))

\* A slip: async_select_option compares the mode with the option's label.
LoopExit_compares_label(op, option, current) ==
    CASE op = "select_option" -> current = JStr(option)
      [] op = "turn_off" -> current = JInt(0)
      [] OTHER -> ModeIsOn(current)

\* The test at the head of an iteration after which the method returns.
LoopExit(op, option, current) ==
    CASE op = "select_option" -> current = DesiredMode(option)
      [] op = "turn_off" -> current = JInt(0)
      [] OTHER -> ModeIsOn(current)

\* A slip: async_turn_on raises after the loop without reading the mode.
Exhausted_no_grace(op, option, current) ==
    CASE op = "select_option" -> HomeAssistantError(CouldNotReach(option))
      [] op = "turn_off" -> HomeAssistantError(CouldNotTurnOff)
      [] OTHER -> HomeAssistantError(CouldNotTurnOn)

\* What follows the loop: the final grace of async_turn_on, and the error.
Exhausted(op, option, current) ==
    CASE op = "select_option" -> HomeAssistantError(CouldNotReach(option))
      [] op = "turn_off" -> HomeAssistantError(CouldNotTurnOff)
      [] OTHER -> IF current # None /\ current # JInt(0) THEN Ok(None)
                  ELSE HomeAssistantError(CouldNotTurnOn)

\* The except clause of _do_action and _cycle_once: an error of the client
\* becomes a HomeAssistantError with its text, any other exception passes.
ActionFailed(out) ==
    IF out.exc \in ApiErrors THEN HomeAssistantError(out.msg) ELSE out

\* A slip: the last except clause is missing, so an exception that is not
\* one of the client's passes through.
UpdateData_without_last_clause(out) ==
    IF out.kind = "ok" THEN out
    ELSE CASE out.exc = "ConnectMyPoolThrottleError" ->
                Raise("UpdateFailed", <<"Throttled: ">> \o out.msg)
           [] out.exc = "ConnectMyPoolNotConnectedError" ->
                Raise("UpdateFailed", <<"Pool not connected: ">> \o out.msg)
           [] out.exc \in ApiErrors -> Raise("UpdateFailed", out.msg)
           [] OTHER -> out

\* ConnectMyPoolCoordinator._async_update_data, given what pool_status
\* returned or raised: every exception becomes UpdateFailed.
UpdateData(out) ==
    IF out.kind = "ok" THEN out
    ELSE CASE out.exc = "ConnectMyPoolThrottleError" ->
                Raise("UpdateFailed", <<"Throttled: ">> \o out.msg)
           [] out.exc = "ConnectMyPoolNotConnectedError" ->
                Raise("UpdateFailed", <<"Pool not connected: ">> \o out.msg)
           [] out.exc \in ApiErrors -> Raise("UpdateFailed", out.msg)
           [] OTHER -> Raise("UpdateFailed",
                             <<"Unexpected error: ">> \o out.msg)

\* The entity method ends.
Done(out) == resolver' = [resolver EXCEPT !.pc = "done", !.out = out]

\* The client takes no step.
ClientUnchanged ==
    /\ last' = NoCall
    /\ UNCHANGED <<clock, min_poll_seconds, cacheVars, fast_poll_until,
                   action_lock, tasks, historyVars, postVars>>

\* The entity methods and the options they are called with.
ResolverCalls ==
    {<<"select_option", o>> :
        o \in {CHANNEL_MODES[m] : m \in DOMAIN CHANNEL_MODES} \cup {"Eco"}}
    \cup {<<"turn_on", "">>, <<"turn_off", "">>}

\* The method is called: async_select_option looks its option up.
ResolverCall(op, option) ==
    /\ resolver.pc = "idle"
    /\ IF op = "select_option" /\ DesiredMode(option) = None
       THEN resolver' = [NoResolver EXCEPT
                           !.pc = "done", !.op = op, !.option = option,
                           !.out = HomeAssistantError(
                                      UnsupportedOption(option))]
       ELSE resolver' = [NoResolver EXCEPT
                           !.pc = "loop", !.op = op, !.option = option]
    /\ ClientUnchanged
    /\ UNCHANGED <<channel_mode, cycle_len, coordinator_data>>

\* The head of an iteration, up to the suspension in pool_action: the mode
\* is read from the snapshot and the method returns, or the cycle action is
\* sent; after the last iteration, the grace or the error.
LoopHead ==
    /\ resolver.pc = "loop"
    /\ IF resolver.i >= CYCLE_ATTEMPTS /\ resolver.op # "turn_on"
       THEN /\ Done(Exhausted(resolver.op, resolver.option, None))
            /\ ClientUnchanged
       ELSE LET current == FindMode
            IN IF "kind" \in DOMAIN current
               THEN Done(current) /\ ClientUnchanged
               ELSE IF resolver.i >= CYCLE_ATTEMPTS
               THEN /\ Done(Exhausted(resolver.op, resolver.option, current))
                    /\ ClientUnchanged
               ELSE IF LoopExit(resolver.op, resolver.option, current)
               THEN Done(Ok(None)) /\ ClientUnchanged
               ELSE /\ \E t \in DOMAIN tasks : PoolAction(t)
                    /\ resolver' = [resolver EXCEPT
                                       !.pc = "action", !.cycles = @ + 1]
    /\ UNCHANGED <<channel_mode, cycle_len, coordinator_data>>

\* What the controller may answer to the cycle action.
CycleAnswers ==
    {Json(Data(1)), Json(Failure(JInt(1))),
     Json(Failure(JInt(FAILURE_CODE_THROTTLED))), TimedOut,
     Json(JDict([k \in {"failure_code"} |-> JNull]))}

\* A slip: a failure of the cycle action is swallowed and the loop goes on.
ActionAnswered_swallows(a) ==
    /\ resolver.pc = "action"
    /\ \E t \in DOMAIN tasks : ActionReturn(t, a)
    /\ channel_mode' = IF last'.out.kind = "ok"
                       THEN (channel_mode + 1) % cycle_len ELSE channel_mode
    /\ resolver' = [resolver EXCEPT !.pc = "refresh", !.stage = 1]
    /\ UNCHANGED <<cycle_len, coordinator_data>>

\* The cycle action is answered: an accepted action advances the channel,
\* and asyncio.sleep(1.0) leads to the refresh; a failure ends the method
\* in the except clause.
ActionAnswered(a) ==
    /\ resolver.pc = "action"
    /\ \E t \in DOMAIN tasks : ActionReturn(t, a)
    /\ IF last'.out.kind = "ok"
       THEN /\ channel_mode' = (channel_mode + 1) % cycle_len
            /\ resolver' = [resolver EXCEPT !.pc = "refresh", !.stage = 1]
       ELSE /\ Done(ActionFailed(last'.out))
            /\ UNCHANGED channel_mode
    /\ UNCHANGED <<cycle_len, coordinator_data>>

\* A slip: after a refresh the method asks for a refresh again.
AfterRefresh_again == [resolver EXCEPT !.pc = "refresh"]

\* After the refresh inside _do_action, async_select_option sleeps and
\* asks for a second one; after that, and in the switch after the first,
\* the next iteration begins.
AfterRefresh ==
    IF resolver.op = "select_option" /\ resolver.stage = 1
    THEN [resolver EXCEPT !.pc = "refresh", !.stage = 2,
                          !.refreshes = @ + 1]
    ELSE [resolver EXCEPT !.pc = "loop", !.stage = 0, !.i = @ + 1,
                          !.refreshes = @ + 1]

\* coordinator.async_request_refresh(): _async_update_data calls
\* pool_status with force=false; a payload it returns at once becomes the
\* snapshot.
RequestRefresh ==
    /\ resolver.pc = "refresh"
    /\ \E t \in DOMAIN tasks : PoolStatus(t, FALSE)
    /\ IF last'.op = "pool_status"
       THEN /\ coordinator_data' = last'.out.payload
            /\ resolver' = AfterRefresh
       ELSE /\ resolver' = [resolver EXCEPT !.pc = "refreshing"]
            /\ UNCHANGED coordinator_data
    /\ UNCHANGED <<channel_mode, cycle_len>>

\* What the controller may answer to the status request of a refresh.
StatusAnswers ==
    {Json(StatusOf(channel_mode)), Json(Data(1)),
     Json(Failure(JInt(FAILURE_CODE_THROTTLED))),
     Json(Failure(JInt(FAILURE_CODE_POOL_NOT_CONNECTED))), TimedOut}

\* The status request of the refresh is answered: the payload becomes the
\* snapshot, a failed update leaves the snapshot as it was.
RefreshAnswered(a) ==
    /\ resolver.pc = "refreshing"
    /\ \E t \in DOMAIN tasks : StatusReturn(t, a)
    /\ LET update == UpdateData(last'.out)
       IN coordinator_data' = IF update.kind = "ok" THEN update.payload
                              ELSE coordinator_data
    /\ resolver' = AfterRefresh
    /\ UNCHANGED <<channel_mode, cycle_len>>

\* The coroutine that runs the entity method.
CycleTasks == {1}

\* The state after async_setup_entry: pool_config and the first refresh
\* have succeeded, so both caches and the snapshot are filled; the channel
\* has a cycle of cycle_len modes and is in one of them.
CycleInit ==
    /\ min_poll_seconds = Max(1, DEFAULT_MIN_POLL_SECONDS)
    /\ clock = 0
    /\ cycle_len \in 1..MaxCycleLen
    /\ channel_mode \in 0..(cycle_len - 1)
    /\ cached_config = ConfigOf
    /\ last_config_at = 0
    /\ cached_status = StatusOf(channel_mode)
    /\ last_status_at = 0
    /\ coordinator_data = StatusOf(channel_mode)
    /\ fast_poll_until = NoTime
    /\ action_lock = [locked |-> FALSE, waiters |-> <<>>]
    /\ tasks = [t \in CycleTasks |-> Idle]
    /\ last = NoCall
    /\ action_done_at = NoTime
    /\ predates_action = [status |-> FALSE, config |-> FALSE]
    /\ read_succeeded = [status |-> TRUE, config |-> TRUE]
    /\ post_in = TimedOut
    /\ post_out = NoOutcome
    /\ resolver = NoResolver
    /\ NoHost

CycleNext ==
    \/ \E c \in ResolverCalls : ResolverCall(c[1], c[2])
          /\ UNCHANGED hostVars
    \/ LoopHead /\ UNCHANGED hostVars
    \/ \E a \in CycleAnswers : ActionAnswered(a) /\ UNCHANGED hostVars
    \/ RequestRefresh /\ UNCHANGED hostVars
    \/ \E a \in StatusAnswers : RefreshAnswered(a) /\ UNCHANGED hostVars

SpecCycle == CycleInit /\ [][CycleNext]_vars

\* The event loop runs a coroutine that is ready, and every request is
\* answered: a method that has been called goes on step by step.
CycleFairness ==
    /\ WF_vars(LoopHead /\ UNCHANGED hostVars)
    /\ WF_vars(\E a \in CycleAnswers :
                  ActionAnswered(a) /\ UNCHANGED hostVars)
    /\ WF_vars(RequestRefresh /\ UNCHANGED hostVars)
    /\ WF_vars(\E a \in StatusAnswers :
                  RefreshAnswered(a) /\ UNCHANGED hostVars)

SpecCycleLive == SpecCycle /\ CycleFairness

(***************************************************************************)
(* The methods that send an action and then ask for a refresh: _do_action  *)
(* and its like in the entities, LightingZoneLight.async_turn_on with and  *)
(* without an effect, and the send_action service.                         *)
(***************************************************************************)
EntityOps == {"do_action", "send_action", "turn_on", "turn_on_effect"}

\* asyncio.sleep(1.0) in _do_action and its like, asyncio.sleep(1.5) in the
\* light, the button and the service: whole seconds of the clock, rounded
\* up.
SettleSeconds(op) == IF op = "do_action" THEN 1 ELSE 2

\* A failed action: the entities wrap the client's error, the service lets
\* it pass.
EntityFailed(op, out) == IF op = "send_action" THEN out ELSE ActionFailed(out)

\* The method is called and sends its action.
EntityCall(op) ==
    /\ resolver.pc = "idle"
    /\ \E t \in DOMAIN tasks : PoolAction(t)
    /\ resolver' = [NoResolver EXCEPT !.pc = "action", !.op = op,
                                      !.cycles = 1]
    /\ UNCHANGED <<channel_mode, cycle_len, coordinator_data>>

\* The action is answered: after an accepted action the light with an
\* effect goes on to its second action, every other method to its sleep; a
\* failure ends the method.
EntityActionAnswered(a) ==
    /\ resolver.pc = "action"
    /\ \E t \in DOMAIN tasks : ActionReturn(t, a)
    /\ IF last'.out.kind = "ok"
       THEN resolver' =
              [resolver EXCEPT
                 !.i = @ + 1,
                 !.pc = IF resolver.op = "turn_on_effect"
                           /\ resolver.cycles = 1
                        THEN "second" ELSE "sleep"]
       ELSE Done(EntityFailed(resolver.op, last'.out))
    /\ UNCHANGED <<channel_mode, cycle_len, coordinator_data>>

\* The light sends the action that sets the colour.
EntitySecondAction ==
    /\ resolver.pc = "second"
    /\ \E t \in DOMAIN tasks : PoolAction(t)
    /\ resolver' = [resolver EXCEPT !.pc = "action", !.cycles = @ + 1]
    /\ UNCHANGED <<channel_mode, cycle_len, coordinator_data>>

\* asyncio.sleep: the settle delay passes.
Settle ==
    /\ resolver.pc = "sleep"
    /\ clock' = clock + SettleSeconds(resolver.op)
    /\ resolver' = [resolver EXCEPT !.pc = "refresh"]
    /\ last' = NoCall
    /\ UNCHANGED <<min_poll_seconds, cacheVars, fast_poll_until,
                   action_lock, tasks, historyVars, postVars>>
    /\ UNCHANGED <<channel_mode, cycle_len, coordinator_data>>

\* coordinator.async_request_refresh(): pool_status without force.
EntityRefresh ==
    /\ resolver.pc = "refresh"
    /\ \E t \in DOMAIN tasks : PoolStatus(t, FALSE)
    /\ IF last'.op = "pool_status"
       THEN /\ coordinator_data' = last'.out.payload
            /\ resolver' = [resolver EXCEPT !.pc = "done",
                                            !.refreshes = @ + 1,
                                            !.out = Ok(None)]
       ELSE /\ resolver' = [resolver EXCEPT !.pc = "refreshing",
                                            !.refreshes = @ + 1]
            /\ UNCHANGED coordinator_data
    /\ UNCHANGED <<channel_mode, cycle_len>>

\* The status request of the refresh is answered; a failed update is the
\* coordinator's matter, and the method returns.
EntityRefreshAnswered(a) ==
    /\ resolver.pc = "refreshing"
    /\ \E t \in DOMAIN tasks : StatusReturn(t, a)
    /\ LET update == UpdateData(last'.out)
       IN coordinator_data' = IF update.kind = "ok" THEN update.payload
                              ELSE coordinator_data
    /\ Done(Ok(None))
    /\ UNCHANGED <<channel_mode, cycle_len>>

\* Time passes before the method is called.
EntityTick == resolver.pc = "idle" /\ Tick

EntityNext ==
    \/ EntityTick /\ UNCHANGED entityVars
    \/ \E op \in EntityOps : EntityCall(op) /\ UNCHANGED hostVars
    \/ \E a \in CycleAnswers : EntityActionAnswered(a) /\ UNCHANGED hostVars
    \/ EntitySecondAction /\ UNCHANGED hostVars
    \/ Settle /\ UNCHANGED hostVars
    \/ EntityRefresh /\ UNCHANGED hostVars
    \/ \E a \in StatusAnswers : EntityRefreshAnswered(a)
          /\ UNCHANGED hostVars

\* The loaded entry of CycleInit, at any moment of the clock.
SpecEntity == CycleInit /\ [][EntityNext]_vars

(***************************************************************************)
(* The config entry (__init__.py, config_flow.py, coordinator.py): the     *)
(* config flow's step validates the API code; async_setup_entry loads the  *)
(* config, builds the coordinator and waits for its first refresh, after   *)
(* which the coordinator refreshes on its interval.                        *)
(***************************************************************************)
\* The scan intervals an entry is configured with, and its options.
ScanIntervals == {JInt(n) : n \in {-1, 0, 59, 60, 61, MaxScanInterval}}
EntryOptions ==
    {EmptyDict}
    \cup {JDict([k \in {"scan_interval"} |-> s]) : s \in ScanIntervals}

\* entry.options.get(CONF_SCAN_INTERVAL, ... DEFAULT_SCAN_INTERVAL)
ScanInterval ==
    DictGet(entry_options, "scan_interval", JInt(DEFAULT_SCAN_INTERVAL))

\* A slip: the interval is taken as configured.
UpdateInterval_unfloored(scan_interval) == PyInt(scan_interval).v

\* ConnectMyPoolCoordinator.__init__: the seconds of update_interval.
UpdateInterval(scan_interval) ==
    Max(DEFAULT_SCAN_INTERVAL, PyInt(scan_interval).v)

\* The except clauses of async_setup_entry around pool_config.
SetupConfigFailed(out) ==
    IF out.exc = "ConnectMyPoolAuthError"
    THEN Raise("ConfigEntryAuthFailed", out.msg)
    ELSE Raise("ConfigEntryNotReady", out.msg)

\* coordinator.async_config_entry_first_refresh() after an update that
\* raised UpdateFailed.
FirstRefreshFailed(update) == Raise("ConfigEntryNotReady", update.msg)

\* The except clauses of async_step_user: errors["base"].
FlowError(out) ==
    IF out.exc = "ConnectMyPoolAuthError" THEN "invalid_auth"
    ELSE IF out.exc \in ApiErrors THEN "cannot_connect"
    ELSE "unknown"

\* What the controller may answer during setup and to a refresh.
SetupAnswers == AllAnswers \cup {NotJson}

\* What the steps of the entry leave alone.
SetupFrame == UNCHANGED <<channel_mode, cycle_len, resolver, entry_options,
                          diagVars, nameVars, argVars, climate>>

\* async_setup_entry up to its suspension in pool_config.
SetupEntry ==
    /\ setup.pc = "idle"
    /\ \E t \in DOMAIN tasks : PoolConfig(t, FALSE)
    /\ setup' = [setup EXCEPT !.pc = "config", !.op = "setup_entry"]
    /\ UNCHANGED <<coordinator_data, update_interval, last_update>>
    /\ SetupFrame

\* async_step_user with the user's input, up to its suspension in
\* pool_config.
StepUser ==
    /\ setup.pc = "idle"
    /\ \E t \in DOMAIN tasks : PoolConfig(t, TRUE)
    /\ setup' = [setup EXCEPT !.pc = "config", !.op = "step_user"]
    /\ UNCHANGED <<coordinator_data, update_interval, last_update>>
    /\ SetupFrame

\* pool_config is answered: the step shows its form again with an error or
\* creates the entry; async_setup_entry raises, or builds the coordinator.
ConfigAnswered(a) ==
    /\ setup.pc = "config"
    /\ \E t \in DOMAIN tasks : ConfigReturn(t, a)
    /\ LET out == last'.out
       IN IF setup.op = "step_user"
          THEN /\ setup' = [setup EXCEPT
                              !.pc = "done",
                              !.out = IF out.kind = "ok"
                                      THEN [kind |-> "create_entry"]
                                      ELSE [kind |-> "form",
                                            errors |-> FlowError(out)]]
               /\ UNCHANGED update_interval
          ELSE IF out.kind = "ok"
          THEN /\ setup' = [setup EXCEPT !.pc = "coordinator"]
               /\ update_interval' = UpdateInterval(ScanInterval)
          ELSE /\ setup' = [setup EXCEPT !.pc = "done",
                                         !.out = SetupConfigFailed(out)]
               /\ UNCHANGED update_interval
    /\ UNCHANGED <<coordinator_data, last_update>>
    /\ SetupFrame

\* async_config_entry_first_refresh() up to its suspension in pool_status.
FirstRefresh ==
    /\ setup.pc = "coordinator"
    /\ \E t \in DOMAIN tasks : PoolStatus(t, FALSE)
    /\ setup' = [setup EXCEPT !.pc = "first_refresh"]
    /\ UNCHANGED <<coordinator_data, update_interval, last_update>>
    /\ SetupFrame

\* The first refresh ends: with a snapshot the entry is loaded, with
\* UpdateFailed the setup is not ready.
FirstRefreshAnswered(a) ==
    /\ setup.pc = "first_refresh"
    /\ \E t \in DOMAIN tasks : StatusReturn(t, a)
    /\ LET update == UpdateData(last'.out)
       IN /\ last_update' = update
          /\ IF update.kind = "ok"
             THEN /\ coordinator_data' = update.payload
                  /\ setup' = [setup EXCEPT !.pc = "loaded",
                                            !.out = Ok(None)]
             ELSE /\ setup' = [setup EXCEPT
                                  !.pc = "done",
                                  !.out = FirstRefreshFailed(update)]
                  /\ UNCHANGED coordinator_data
    /\ UNCHANGED update_interval
    /\ SetupFrame

\* The refresh the coordinator schedules on its interval: pool_status
\* without force, which may return its cache at once.
ScheduledRefresh ==
    /\ setup.pc = "loaded"
    /\ \E t \in DOMAIN tasks : PoolStatus(t, FALSE)
    /\ IF last'.op = "pool_status"
       THEN /\ last_update' = UpdateData(last'.out)
            /\ coordinator_data' = last'.out.payload
            /\ UNCHANGED setup
       ELSE /\ setup' = [setup EXCEPT !.pc = "refreshing"]
            /\ UNCHANGED <<coordinator_data, last_update>>
    /\ UNCHANGED update_interval
    /\ SetupFrame

\* The status request of a scheduled refresh is answered.
ScheduledRefreshAnswered(a) ==
    /\ setup.pc = "refreshing"
    /\ \E t \in DOMAIN tasks : StatusReturn(t, a)
    /\ LET update == UpdateData(last'.out)
       IN /\ last_update' = update
          /\ coordinator_data' = IF update.kind = "ok" THEN update.payload
                                 ELSE coordinator_data
    /\ setup' = [setup EXCEPT !.pc = "loaded"]
    /\ UNCHANGED update_interval
    /\ SetupFrame

\* The coroutine that sets the entry up.
SetupTasks == {1}

\* A new client (min_poll_seconds=60) for an entry with some options.
SetupInit ==
    /\ ApiInit(DEFAULT_MIN_POLL_SECONDS)
    /\ clock = 0
    /\ tasks = [t \in SetupTasks |-> Idle]
    /\ last = NoCall
    /\ action_done_at = NoTime
    /\ predates_action = [status |-> FALSE, config |-> FALSE]
    /\ read_succeeded = [status |-> FALSE, config |-> FALSE]
    /\ post_in = TimedOut
    /\ post_out = NoOutcome
    /\ NoCycling
    /\ entry_options \in EntryOptions
    /\ update_interval = NoTime
    /\ setup = NoSetup
    /\ last_update = NoOutcome
    /\ NoDiagnostics
    /\ NoNames
    /\ NoArgs
    /\ NoClimate

SetupNext ==
    \/ Tick /\ UNCHANGED entityVars
    \/ SetupEntry
    \/ StepUser
    \/ \E a \in SetupAnswers : ConfigAnswered(a)
    \/ FirstRefresh
    \/ \E a \in SetupAnswers : FirstRefreshAnswered(a)
    \/ ScheduledRefresh
    \/ \E a \in SetupAnswers : ScheduledRefreshAnswered(a)

SpecSetup == SetupInit /\ [][SetupNext]_vars

(***************************************************************************)
(* _post on its own: every exchange of a bounded set is handed to it once. *)
(***************************************************************************)
\* A key that the mapping does not hold.
Absent == [t |-> "absent"]

\* The values the server is modelled to put under failure_code and
\* failure_description.
CodeValues ==
    {JInt(c) : c \in -1..MaxCode}
    \cup {JStr(<<"6">>), JStr(<<" ", "7", " ">>), JStr(<<"-", "3">>),
          JStr(<<"1", "2">>), JStr(<<"a">>), JStr(<<>>), JNull, JBool(TRUE),
          JList(<<>>)}
DescValues == {JStr(<<"b", "a", "d">>), JStr(<<>>), JNull, JInt(5)}

\* The mapping with the given values under its three keys.
Mapping(code, desc, data) ==
    LET val == [failure_code |-> code, failure_description |-> desc,
                temperature |-> data]
    IN JDict([k \in {k \in DOMAIN val : val[k] # Absent} |-> val[k]])

Mappings ==
    {Mapping(code, desc, data) :
        code \in CodeValues \cup {Absent},
        desc \in DescValues \cup {Absent},
        data \in {JInt(28), Absent}}

Bodies ==
    Mappings
    \cup {JList(<<m>>) : m \in Mappings}
    \cup {JList(<<m, Data(1)>>) : m \in Mappings}
    \cup {JList(<<>>), JList(<<JInt(1)>>), JList(<<JList(<<Data(1)>>)>>),
          JInt(5), JStr(<<"o", "k">>), JNull, JBool(FALSE)}

Exchanges ==
    {Json(b) : b \in Bodies}
    \cup {TimedOut, ClientError, NotJson}
    \cup {HttpError(status) : status \in {404, 500}}

PostInit ==
    /\ ApiInit(DEFAULT_MIN_POLL_SECONDS)
    /\ clock = 0
    /\ tasks = [t \in Tasks |-> Idle]
    /\ last = NoCall
    /\ action_done_at = NoTime
    /\ predates_action = [status |-> FALSE, config |-> FALSE]
    /\ read_succeeded = [status |-> FALSE, config |-> FALSE]
    /\ post_in \in Exchanges
    /\ post_out = NoOutcome
    /\ NoCycling
    /\ NoHost

\* One call of _post with the exchange post_in.
PostCall ==
    /\ post_out = NoOutcome
    /\ post_out' = Post(post_in)
    /\ UNCHANGED <<clock, min_poll_seconds, cacheVars, fast_poll_until,
                   action_lock, tasks, last, historyVars, post_in>>

PostNext == PostCall /\ UNCHANGED entityVars

SpecPost == PostInit /\ [][PostNext]_vars

(***************************************************************************)
(* The diagnostics of a config entry (diagnostics.py), on their own: every *)
(* installation of a bounded set is handed to them once.                   *)
(***************************************************************************)
CONF_POOL_API_CODE == "pool_api_code"
REDACTED == <<"***REDACTED***">>

\* A slip: only the keys of the outermost mapping are looked at.
Redact_top_level(obj) ==
    IF obj.t = "dict"
    THEN JDict([k \in DOMAIN obj.v |->
                  IF k = CONF_POOL_API_CODE THEN JStr(REDACTED)
                  ELSE obj.v[k]])
    ELSE obj

\* _redact(obj)
RECURSIVE Redact(_)
Redact(obj) ==
    IF obj.t = "dict"
    THEN JDict([k \in DOMAIN obj.v |->
                  IF k = CONF_POOL_API_CODE THEN JStr(REDACTED)
                  ELSE Redact(obj.v[k])])
    ELSE IF obj.t = "list"
    THEN JList([i \in 1..Len(obj.v) |-> Redact(obj.v[i])])
    ELSE obj

\* The dict async_get_config_entry_diagnostics returns.
Diagnostics(in) ==
    JDict([entry |-> JDict([title |-> in.title,
                            data |-> Redact(in.data),
                            options |-> in.options]),
           api |-> JDict([base_url |-> in.base_url]),
           config |-> Redact(in.config),
           last_status |-> IF in.coordinator = None THEN None
                           ELSE Redact(in.coordinator)])

\* The pool API codes of two installations.
ApiCodes == {<<"A">>, <<"B">>}

\* The payloads an installation holds for the API code c: mappings and
\* lists nested up to depth d, with the code under pool_api_code.
RECURSIVE Payloads(_, _)
Payloads(d, c) ==
    IF d = 0 THEN {JInt(1)}
    ELSE LET inner == Payloads(d - 1, c)
         IN {JInt(1), JDict([k \in {CONF_POOL_API_CODE} |-> JStr(c)])}
            \cup {JDict([k \in {CONF_POOL_API_CODE, "sub"} |->
                          IF k = "sub" THEN v ELSE JStr(c)]) : v \in inner}
            \cup {JDict([k \in {"sub"} |-> v]) : v \in inner}
            \cup {JList(<<v, JInt(1)>>) : v \in inner}

\* entry.data as the config flow stores it.
EntryData(c) ==
    JDict([k \in {CONF_POOL_API_CODE, "base_url", "temperature_scale"} |->
             CASE k = CONF_POOL_API_CODE -> JStr(c)
               [] k = "base_url" -> JStr(<<"u">>)
               [] OTHER -> JInt(0)])

\* The installations: an entry, its options, the loaded config and the
\* coordinator's snapshot, or neither while the entry is not loaded.
InstallationsOf(c) ==
    {[title |-> JStr(<<"ConnectMyPool">>), data |-> EntryData(c),
      options |-> EmptyDict, base_url |-> JStr(<<"u">>), config |-> cfg,
      coordinator |-> st] :
        cfg \in Payloads(MaxDepth, c),
        st \in Payloads(MaxDepth, c) \cup {None}}
    \cup
    {[title |-> JStr(<<"ConnectMyPool">>), data |-> EntryData(c),
      options |-> o, base_url |-> None, config |-> None,
      coordinator |-> None] : o \in EntryOptions}
Installations == UNION {InstallationsOf(c) : c \in ApiCodes}

DiagInit ==
    /\ ApiInit(DEFAULT_MIN_POLL_SECONDS)
    /\ clock = 0
    /\ tasks = [t \in Tasks |-> Idle]
    /\ last = NoCall
    /\ action_done_at = NoTime
    /\ predates_action = [status |-> FALSE, config |-> FALSE]
    /\ read_succeeded = [status |-> FALSE, config |-> FALSE]
    /\ post_in = TimedOut
    /\ post_out = NoOutcome
    /\ NoCycling
    /\ entry_options = EmptyDict
    /\ update_interval = NoTime
    /\ setup = NoSetup
    /\ last_update = NoOutcome
    /\ diag_in \in Installations
    /\ diag_out = None
    /\ NoNames
    /\ NoArgs
    /\ NoClimate

\* One call of async_get_config_entry_diagnostics.
DiagCall ==
    /\ diag_out = None
    /\ diag_out' = Diagnostics(diag_in)
    /\ UNCHANGED <<clock, min_poll_seconds, cacheVars, fast_poll_until,
                   action_lock, tasks, last, historyVars, postVars,
                   cycleVars, entry_options, update_interval, setup,
                   last_update, diag_in, nameVars, argVars, climate>>

DiagNext == DiagCall

SpecDiag == DiagInit /\ [][DiagNext]_vars

(***************************************************************************)
(* The friendly names of the devices (__init__.py), on their own: every    *)
(* config of a bounded set is handed to _apply_unique_friendly_names once. *)
(***************************************************************************)
Lowers == <<"a", "b", "c", "d", "e", "f", "g", "h", "i", "j", "k", "l", "m",
            "n", "o", "p", "q", "r", "s", "t", "u", "v", "w", "x", "y", "z">>
Uppers == <<"A", "B", "C", "D", "E", "F", "G", "H", "I", "J", "K", "L", "M",
            "N", "O", "P", "Q", "R", "S", "T", "U", "V", "W", "X", "Y", "Z">>

\* str.upper() and str.lower() of one character.
ToUpper(c) ==
    IF \E i \in DOMAIN Lowers : Lowers[i] = c
    THEN Uppers[CHOOSE i \in DOMAIN Lowers : Lowers[i] = c] ELSE c
ToLower(c) ==
    IF \E i \in DOMAIN Uppers : Uppers[i] = c
    THEN Lowers[CHOOSE i \in DOMAIN Uppers : Uppers[i] = c] ELSE c

\* s.upper()
Upper(cs) == [i \in 1..Len(cs) |-> ToUpper(cs[i])]

\* w.capitalize()
Capitalize(w) ==
    [i \in 1..Len(w) |-> IF i = 1 THEN ToUpper(w[i]) ELSE ToLower(w[i])]

\* sub in s
HasSubstring(cs, sub) ==
    \E i \in 1..(Len(cs) - Len(sub) + 1) :
        SubSeq(cs, i, i + Len(sub) - 1) = sub

\* The separators of the pattern [_\-\s]+ .
IsSeparator(c) == c \in {"_", "-", " "}

\* [w for w in re.split(r"[_\-\s]+", s) if w]: word is the word being read.
RECURSIVE SplitWords(_, _)
SplitWords(cs, word) ==
    IF cs = <<>> THEN (IF word = <<>> THEN <<>> ELSE <<word>>)
    ELSE IF IsSeparator(Head(cs))
    THEN (IF word = <<>> THEN <<>> ELSE <<word>>)
         \o SplitWords(Tail(cs), <<>>)
    ELSE SplitWords(Tail(cs), Append(word, Head(cs)))

\* " ".join(words)
RECURSIVE JoinWords(_)
JoinWords(words) ==
    IF words = <<>> THEN <<>>
    ELSE IF Len(words) = 1 THEN words[1]
    ELSE words[1] \o <<" ">> \o JoinWords(Tail(words))

\* Python's truth value of a JSON value.
Truthy(x) ==
    CASE x.t \in {"none", "null"} -> FALSE
      [] x.t = "int" -> x.v # 0
      [] x.t = "bool" -> x.v
      [] x.t = "str" -> x.v # <<>>
      [] x.t = "list" -> x.v # <<>>
      [] x.t = "dict" -> DOMAIN x.v # {}
      [] OTHER -> TRUE

\* x is None
IsNone(x) == x.t \in {"none", "null"}

\* _pretty_function(func): a label as a string, or None.
PrettyFunction(func) ==
    IF ~Truthy(func) THEN None
    ELSE LET s == StripRight(StripLeft(PyStr(func)))
             up == Upper(s)
         IN IF s = <<>> THEN None
            ELSE IF HasSubstring(up, <<"L", "I", "G", "H", "T">>)
            THEN JStr(<<"L", "i", "g", "h", "t">>)
            ELSE IF \/ HasSubstring(up, <<"F", "I", "L", "T", "E", "R">>)
                    \/ HasSubstring(up, <<"P", "U", "M", "P">>)
            THEN JStr(<<"P", "u", "m", "p">>)
            ELSE IF HasSubstring(up, <<"B", "L", "O", "W">>)
            THEN JStr(<<"B", "l", "o", "w", "e", "r">>)
            ELSE IF HasSubstring(up, <<"J", "E", "T">>)
            THEN JStr(<<"J", "e", "t", "s">>)
            ELSE IF HasSubstring(up, <<"H", "E", "A", "T">>)
            THEN JStr(<<"H", "e", "a", "t", "e", "r">>)
            ELSE IF HasSubstring(up, <<"S", "O", "L", "A", "R">>)
            THEN JStr(<<"S", "o", "l", "a", "r">>)
            ELSE LET words == SplitWords(s, <<>>)
                 IN JStr(JoinWords([i \in 1..Len(words) |->
                                      Capitalize(words[i])]))

\* The five calls of apply: list_key, name_key, id_key, kind.
DEVICE_LISTS ==
    <<[list_key |-> "channels", name_key |-> "name",
       id_key |-> "channel_number",
       kind |-> <<"C", "h", "a", "n", "n", "e", "l">>],
      [list_key |-> "valves", name_key |-> "name",
       id_key |-> "valve_number", kind |-> <<"V", "a", "l", "v", "e">>],
      [list_key |-> "heaters", name_key |-> "name",
       id_key |-> "heater_number",
       kind |-> <<"H", "e", "a", "t", "e", "r">>],
      [list_key |-> "solar_systems", name_key |-> "name",
       id_key |-> "solar_number", kind |-> <<"S", "o", "l", "a", "r">>],
      [list_key |-> "lighting_zones", name_key |-> "name",
       id_key |-> "lighting_zone_number",
       kind |-> <<"L", "i", "g", "h", "t", "i", "n", "g", " ",
                  "Z", "o", "n", "e">>]>>

\* The name an item starts from: its stripped name, or the kind with its
\* number, or the kind alone.
BaseName(it, dl) ==
    LET got == DictGet(it, dl.name_key, None)
        raw == IF Truthy(got) THEN got ELSE JStr(<<>>)
        name == StripRight(StripLeft(PyStr(raw)))
        num == DictGet(it, dl.id_key, None)
    IN IF name # <<>> THEN name
       ELSE IF ~IsNone(num) THEN dl.kind \o <<" ">> \o PyStr(num)
       ELSE dl.kind

\* counts[base]: how many items of the list start from the name base.
CountOf(base_names, base) ==
    Cardinality({i \in DOMAIN base_names : base_names[i] = base})

\* The name tried first for an item that cannot keep its base name.
Candidate(it, base, dl) ==
    LET num == DictGet(it, dl.id_key, None)
        func_label == PrettyFunction(DictGet(it, "function", None))
    IN IF func_label # None /\ ~IsNone(num)
       THEN base \o <<" ", "(">> \o func_label.v \o <<" ">> \o PyStr(num)
            \o <<")">>
       ELSE IF ~IsNone(num)
       THEN base \o <<" ", "(", "C", "h", " ">> \o PyStr(num) \o <<")">>
       ELSE IF func_label # None
       THEN base \o <<" ", "(">> \o func_label.v \o <<")">>
       ELSE base \o <<" ", "(", "d", "u", "p", ")">>

\* The while loop: candidate, else candidate with the first of 2, 3, ...
\* that gives a name not in used.
RECURSIVE NumberedName(_, _, _)
NumberedName(candidate, i, used) ==
    LET final == candidate \o <<" ">> \o IntToChars(i)
    IN IF final \in used THEN NumberedName(candidate, i + 1, used)
       ELSE final

\* A slip: the candidate is taken as it is.
FinalName_unchecked(candidate, used) == candidate

FinalName(candidate, used) ==
    IF candidate \in used THEN NumberedName(candidate, 2, used)
    ELSE candidate

\* it["friendly_name"] = name
WithFriendlyName(it, name) ==
    JDict([k \in DOMAIN it.v \cup {"friendly_name"} |->
             IF k = "friendly_name" THEN JStr(name) ELSE it.v[k]])

\* The last loop of apply from item k on, with the names used so far.
RECURSIVE NameItems(_, _, _, _, _)
NameItems(items, base_names, k, used, dl) ==
    IF k > Len(items) THEN <<>>
    ELSE LET base == base_names[k]
             name == IF CountOf(base_names, base) = 1 /\ base \notin used
                     THEN base
                     ELSE FinalName(Candidate(items[k], base, dl), used)
         IN <<WithFriendlyName(items[k], name)>>
            \o NameItems(items, base_names, k + 1, used \cup {name}, dl)

\* apply(list_key, name_key, id_key, kind) on the config.
ApplyNames(pool_config, dl) ==
    LET got == DictGet(pool_config, dl.list_key, None)
    IN IF ~Truthy(got) \/ got.t # "list" THEN pool_config
       ELSE LET base_names == [i \in 1..Len(got.v) |->
                                 BaseName(got.v[i], dl)]
            IN JDict([pool_config.v EXCEPT
                        ![dl.list_key] =
                            JList(NameItems(got.v, base_names, 1, {}, dl))])

\* _apply_unique_friendly_names(pool_config): the config after the five
\* calls of apply.
RECURSIVE ApplyUniqueFriendlyNames(_, _)
ApplyUniqueFriendlyNames(pool_config, k) ==
    IF k > Len(DEVICE_LISTS) THEN pool_config
    ELSE ApplyUniqueFriendlyNames(ApplyNames(pool_config, DEVICE_LISTS[k]),
                                  k + 1)

\* The names, numbers and functions a controller reports for a device;
\* None stands for a key the item does not have.  One device bears the
\* name that is tried first for a second "A" without number and function.
DeviceNames == {None, JStr(<<" ">>), JStr(<<"A">>)}
DeviceNumbers == {None, JInt(1)}
DeviceFunctions == {None, JStr(<<"a", "_", "j", "e", "t">>)}
Devices ==
    [name : DeviceNames, num : DeviceNumbers, function : DeviceFunctions]
    \cup {[name |-> JStr(<<"A", " ", "(", "d", "u", "p", ")">>),
           num |-> None, function |-> None]}

\* The item of a device in the list of dl.
ItemOf(dev, dl) ==
    LET keys == {k \in {dl.name_key, dl.id_key, "function"} :
                   CASE k = dl.name_key -> dev.name # None
                     [] k = dl.id_key -> dev.num # None
                     [] OTHER -> dev.function # None}
    IN JDict([k \in keys |->
                CASE k = dl.name_key -> dev.name
                  [] k = dl.id_key -> dev.num
                  [] OTHER -> dev.function])

\* A config whose five lists report the devices devs, each list under its
\* own keys.
ConfigWith(devs) ==
    JDict([lk \in {DEVICE_LISTS[j].list_key : j \in DOMAIN DEVICE_LISTS} |->
             LET dl == DEVICE_LISTS[CHOOSE j \in DOMAIN DEVICE_LISTS :
                                      DEVICE_LISTS[j].list_key = lk]
             IN JList([i \in 1..Len(devs) |-> ItemOf(devs[i], dl)])])

\* The configs: up to MaxItems devices per list, and a config without the
\* lists.
Configs ==
    {ConfigWith(devs) :
        devs \in UNION {[1..n -> Devices] : n \in 0..MaxItems}}
    \cup {Data(1)}

NamesInit ==
    /\ ApiInit(DEFAULT_MIN_POLL_SECONDS)
    /\ clock = 0
    /\ tasks = [t \in Tasks |-> Idle]
    /\ last = NoCall
    /\ action_done_at = NoTime
    /\ predates_action = [status |-> FALSE, config |-> FALSE]
    /\ read_succeeded = [status |-> FALSE, config |-> FALSE]
    /\ post_in = TimedOut
    /\ post_out = NoOutcome
    /\ NoCycling
    /\ entry_options = EmptyDict
    /\ update_interval = NoTime
    /\ setup = NoSetup
    /\ last_update = NoOutcome
    /\ NoDiagnostics
    /\ names_in \in Configs
    /\ names_out = None
    /\ NoArgs
    /\ NoClimate

\* One call of _apply_unique_friendly_names.
ApplyCall ==
    /\ names_out = None
    /\ names_out' = ApplyUniqueFriendlyNames(names_in, 1)
    /\ UNCHANGED <<clock, min_poll_seconds, cacheVars, fast_poll_until,
                   action_lock, tasks, last, historyVars, postVars,
                   cycleVars, entry_options, update_interval, setup,
                   last_update, diagVars, names_in, argVars, climate>>

NamesNext == ApplyCall

SpecNames == NamesInit /\ [][NamesNext]_vars

(***************************************************************************)
(* The arguments of the reads: two coroutines call pool_status and         *)
(* pool_config on one client, each call with a pool_api_code and a         *)
(* temperature_scale of its own, and the arguments of the request whose    *)
(* response is stored are remembered next to the cache.                    *)
(***************************************************************************)
\* The temperature scales: Celsius and Fahrenheit.
TemperatureScales == {0, 1}

\* The arguments of a call.
CallArgs ==
    [pool_api_code : ApiCodes, temperature_scale : TemperatureScales]

ArgsInit ==
    /\ ApiInit(DEFAULT_MIN_POLL_SECONDS)
    /\ clock = 0
    /\ tasks = [t \in Tasks |-> Idle]
    /\ last = NoCall
    /\ action_done_at = NoTime
    /\ predates_action = [status |-> FALSE, config |-> FALSE]
    /\ read_succeeded = [status |-> FALSE, config |-> FALSE]
    /\ post_in = TimedOut
    /\ post_out = NoOutcome
    /\ NoCycling
    /\ entry_options = EmptyDict
    /\ update_interval = NoTime
    /\ setup = NoSetup
    /\ last_update = NoOutcome
    /\ NoDiagnostics
    /\ NoNames
    /\ call_args = [t \in Tasks |-> None]
    /\ fetched_with = [status |-> None, config |-> None]
    /\ last_args = None
    /\ NoClimate

\* What the calls with arguments leave alone.
ArgsFrame ==
    UNCHANGED <<cycleVars, entry_options, update_interval, setup,
                last_update, diagVars, nameVars, climate>>

\* pool_status(pool_api_code, temperature_scale, force=force) up to its
\* first suspension.
StatusCall(t, args, force) ==
    /\ PoolStatus(t, force)
    /\ call_args' = [call_args EXCEPT ![t] = args]
    /\ last_args' = IF last'.op = "pool_status" THEN args ELSE None
    /\ UNCHANGED fetched_with
    /\ ArgsFrame

\* pool_config(pool_api_code, force=force) up to its first suspension.
ConfigCall(t, args, force) ==
    /\ PoolConfig(t, force)
    /\ call_args' = [call_args EXCEPT ![t] = args]
    /\ last_args' = IF last'.op = "pool_config" THEN args ELSE None
    /\ UNCHANGED fetched_with
    /\ ArgsFrame

\* The status request, whose body held the arguments of its call, is
\* answered: a response that is stored was fetched with them.
StatusAnswered(t, a) ==
    /\ StatusReturn(t, a)
    /\ last_args' = call_args[t]
    /\ fetched_with' = IF last'.how = "net"
                       THEN [fetched_with EXCEPT !.status = call_args[t]]
                       ELSE fetched_with
    /\ UNCHANGED call_args
    /\ ArgsFrame

\* The config request is answered.
ConfigFetched(t, a) ==
    /\ ConfigReturn(t, a)
    /\ last_args' = call_args[t]
    /\ fetched_with' = IF last'.how = "net"
                       THEN [fetched_with EXCEPT !.config = call_args[t]]
                       ELSE fetched_with
    /\ UNCHANGED call_args
    /\ ArgsFrame

ArgsNext ==
    \/ \E t \in DOMAIN tasks, args \in CallArgs, force \in BOOLEAN :
          StatusCall(t, args, force)
    \/ \E t \in DOMAIN tasks, args \in CallArgs, force \in BOOLEAN :
          ConfigCall(t, args, force)
    \/ \E t \in DOMAIN tasks : \E a \in OverlapAnswers :
          StatusAnswered(t, a)
    \/ \E t \in DOMAIN tasks : \E a \in OverlapAnswers :
          ConfigFetched(t, a)

SpecArgs == ArgsInit /\ [][ArgsNext]_vars

(***************************************************************************)
(* The heater's climate entity: async_set_hvac_mode and its _do_action     *)
(* (SpecClimate).                                                          *)
(***************************************************************************)
ACTION_SET_HEATER_MODE == 4
ACTION_SET_HEAT_COOL == 12

\* HVACMode.OFF, HEAT and COOL, and a mode the entity does not know.
HvacModes == {"off", "heat", "cool", "auto"}

\* The action_code and the value handed to _do_action.
HeaterAction(action_code, value) ==
    [action_code |-> action_code, value |-> value]

\* The _do_action calls of async_set_hvac_mode, in the order of the code.
HvacActions(hvac_mode, heat_cool_enabled) ==
    CASE hvac_mode = "off" ->
           <<HeaterAction(ACTION_SET_HEATER_MODE, "0")>>
      [] hvac_mode = "heat" ->
           (IF heat_cool_enabled
            THEN <<HeaterAction(ACTION_SET_HEAT_COOL, "1")>> ELSE <<>>)
           \o <<HeaterAction(ACTION_SET_HEATER_MODE, "1")>>
      [] hvac_mode = "cool" ->
           <<HeaterAction(ACTION_SET_HEAT_COOL, "0"),
             HeaterAction(ACTION_SET_HEATER_MODE, "1")>>
      [] OTHER -> <<>>

CoolingNotEnabled == <<"Cooling mode is not enabled for this pool.">>
UnsupportedHvacMode(hvac_mode) == <<"Unsupported hvac_mode: ", hvac_mode>>

\* What async_set_hvac_mode raises before it sends anything.
HvacRefused(hvac_mode, heat_cool_enabled) ==
    CASE hvac_mode = "cool" /\ ~heat_cool_enabled ->
           HomeAssistantError(CoolingNotEnabled)
      [] hvac_mode \notin {"off", "heat", "cool"} ->
           HomeAssistantError(UnsupportedHvacMode(hvac_mode))
      [] OTHER -> NoOutcome

\* The actions the method is to send.
ClimatePlan == HvacActions(climate.hvac_mode, climate.heat_cool_enabled)

\* The entity after setup: heat_cool_selection_enabled of the config is
\* set or not, and nothing has been sent.
ClimateInit ==
    /\ min_poll_seconds = Max(1, DEFAULT_MIN_POLL_SECONDS)
    /\ clock = 0
    /\ cycle_len = 1
    /\ channel_mode = 0
    /\ cached_config = ConfigOf
    /\ last_config_at = 0
    /\ cached_status = StatusOf(channel_mode)
    /\ last_status_at = 0
    /\ coordinator_data = StatusOf(channel_mode)
    /\ fast_poll_until = NoTime
    /\ action_lock = [locked |-> FALSE, waiters |-> <<>>]
    /\ tasks = [t \in CycleTasks |-> Idle]
    /\ last = NoCall
    /\ action_done_at = NoTime
    /\ predates_action = [status |-> FALSE, config |-> FALSE]
    /\ read_succeeded = [status |-> TRUE, config |-> TRUE]
    /\ post_in = TimedOut
    /\ post_out = NoOutcome
    /\ resolver = NoResolver
    /\ entry_options = EmptyDict
    /\ update_interval = NoTime
    /\ setup = NoSetup
    /\ last_update = NoOutcome
    /\ NoDiagnostics
    /\ NoNames
    /\ NoArgs
    /\ \E enabled \in BOOLEAN :
          climate = [heat_cool_enabled |-> enabled, hvac_mode |-> "none",
                     sent |-> <<>>]

\* What the steps of the climate entity leave alone.
ClimateFrame ==
    UNCHANGED <<channel_mode, cycle_len, entry_options, update_interval,
                setup, last_update, diagVars, nameVars, argVars>>

\* async_set_hvac_mode is called: cooling without the heat/cool selection
\* and an unknown mode are refused, any other call goes to its first
\* _do_action.
SetHvacMode(hvac_mode) ==
    /\ resolver.pc = "idle"
    /\ climate' = [climate EXCEPT !.hvac_mode = hvac_mode]
    /\ LET refused == HvacRefused(hvac_mode, climate.heat_cool_enabled)
       IN IF refused # NoOutcome
          THEN resolver' = [NoResolver EXCEPT
                              !.pc = "done", !.op = "set_hvac_mode",
                              !.option = hvac_mode, !.out = refused]
          ELSE resolver' = [NoResolver EXCEPT
                              !.pc = "send", !.op = "set_hvac_mode",
                              !.option = hvac_mode, !.stage = 1]
    /\ ClientUnchanged
    /\ UNCHANGED coordinator_data
    /\ ClimateFrame

\* _do_action up to the suspension in pool_action: the action of this
\* stage is sent.
ClimateSend ==
    /\ resolver.pc = "send"
    /\ \E t \in DOMAIN tasks : PoolAction(t)
    /\ climate' = [climate EXCEPT
                     !.sent = Append(@, ClimatePlan[resolver.stage])]
    /\ resolver' = [resolver EXCEPT !.pc = "action", !.cycles = @ + 1]
    /\ UNCHANGED coordinator_data
    /\ ClimateFrame

\* A slip: a failure of the action is swallowed and the method goes on.
ClimateActionAnswered_swallows(a) ==
    /\ resolver.pc = "action"
    /\ \E t \in DOMAIN tasks : ActionReturn(t, a)
    /\ resolver' = [resolver EXCEPT
                      !.pc = "sleep",
                      !.i = IF last'.out.kind = "ok" THEN @ + 1 ELSE @]
    /\ UNCHANGED <<coordinator_data, climate>>
    /\ ClimateFrame

\* The action is answered: after an accepted action _do_action sleeps, a
\* failure ends the method in the except clause.
ClimateActionAnswered(a) ==
    /\ resolver.pc = "action"
    /\ \E t \in DOMAIN tasks : ActionReturn(t, a)
    /\ IF last'.out.kind = "ok"
       THEN resolver' = [resolver EXCEPT !.pc = "sleep", !.i = @ + 1]
       ELSE Done(ActionFailed(last'.out))
    /\ UNCHANGED <<coordinator_data, climate>>
    /\ ClimateFrame

\* asyncio.sleep(1.0) of _do_action.
ClimateSettle ==
    /\ resolver.pc = "sleep"
    /\ clock' = clock + SettleSeconds("do_action")
    /\ resolver' = [resolver EXCEPT !.pc = "refresh"]
    /\ last' = NoCall
    /\ UNCHANGED <<min_poll_seconds, cacheVars, fast_poll_until,
                   action_lock, tasks, historyVars, postVars>>
    /\ UNCHANGED <<coordinator_data, climate>>
    /\ ClimateFrame

\* After a _do_action has returned the method sends its next action, or
\* returns after the last.
AfterDoAction ==
    IF resolver.stage < Len(ClimatePlan)
    THEN [resolver EXCEPT !.pc = "send", !.stage = @ + 1,
                          !.refreshes = @ + 1]
    ELSE [resolver EXCEPT !.pc = "done", !.out = Ok(None),
                          !.refreshes = @ + 1]

\* coordinator.async_request_refresh() of _do_action: pool_status without
\* force.
ClimateRefresh ==
    /\ resolver.pc = "refresh"
    /\ \E t \in DOMAIN tasks : PoolStatus(t, FALSE)
    /\ IF last'.op = "pool_status"
       THEN /\ coordinator_data' = last'.out.payload
            /\ resolver' = AfterDoAction
       ELSE /\ resolver' = [resolver EXCEPT !.pc = "refreshing"]
            /\ UNCHANGED coordinator_data
    /\ UNCHANGED climate
    /\ ClimateFrame

\* The status request of the refresh is answered; a failed update is the
\* coordinator's matter, and _do_action returns.
ClimateRefreshAnswered(a) ==
    /\ resolver.pc = "refreshing"
    /\ \E t \in DOMAIN tasks : StatusReturn(t, a)
    /\ LET update == UpdateData(last'.out)
       IN coordinator_data' = IF update.kind = "ok" THEN update.payload
                              ELSE coordinator_data
    /\ resolver' = AfterDoAction
    /\ UNCHANGED climate
    /\ ClimateFrame

ClimateNext ==
    \/ EntityTick /\ UNCHANGED entityVars
    \/ \E hvac_mode \in HvacModes : SetHvacMode(hvac_mode)
    \/ ClimateSend
    \/ \E a \in CycleAnswers : ClimateActionAnswered(a)
    \/ ClimateSettle
    \/ ClimateRefresh
    \/ \E a \in StatusAnswers : ClimateRefreshAnswered(a)

SpecClimate == ClimateInit /\ [][ClimateNext]_vars

(***************************************************************************)
(* The failure classifier and the normalisation of _post (SpecPost).       *)
(***************************************************************************)
\* The reference table of failure codes.
RefClass(code) ==
    CASE code \in {3, 4, 5} -> "ConnectMyPoolAuthError"
      [] code = 6 -> "ConnectMyPoolThrottleError"
      [] code = 7 -> "ConnectMyPoolNotConnectedError"
      [] OTHER -> "ConnectMyPoolActionError"

\* The position of the first colon of a message (0: none).
ColonAt(msg) ==
    IF \E i \in 1..Len(msg) : msg[i] = ":"
    THEN CHOOSE i \in 1..Len(msg) :
            msg[i] = ":" /\ \A j \in 1..(i - 1) : msg[j] # ":"
    ELSE 0

\* An error message carries the code c: the text before its first colon
\* reads back as c.
CarriesCode(msg, c) ==
    /\ ColonAt(msg) > 1
    /\ ParseInt(SubSeq(msg, 1, ColonAt(msg) - 1)) = [ok |-> TRUE, v |-> c]

\* An error message carries the description d: it is the text after the
\* colon and the blank.
CarriesDescription(msg, d) ==
    /\ ColonAt(msg) > 0
    /\ SubSeq(msg, ColonAt(msg) + 2, Len(msg)) = d

\* The mapping p agrees with the reference table, out being what the
\* classifier made of it.
AgreesWithTable(p, out) ==
    IF "failure_code" \notin DOMAIN p.v THEN out = Ok(p)
    ELSE p.v["failure_code"].t = "int" =>
         /\ out.kind = "raise"
         /\ out.exc = RefClass(p.v["failure_code"].v)
         /\ CarriesCode(out.msg, p.v["failure_code"].v)
         /\ ("failure_description" \in DOMAIN p.v
             /\ p.v["failure_description"].t = "str")
            => CarriesDescription(out.msg, p.v["failure_description"].v)

\* C8: for every response mapping the classifier agrees with the reference
\* table: without a failure_code key the payload is returned unchanged;
\* failure_code 3, 4 or 5 raises the auth error, 6 the throttle error, 7 the
\* not-connected error, any other integer the action error; and the raised
\* error carries the numeric code and the server-supplied description.
C8_ClassifierTable ==
    (post_out # NoOutcome /\ post_in.t = "json" /\ post_in.body.t = "dict")
    => AgreesWithTable(post_in.body, post_out)

\* A failure payload with code 5 and a description has been classified.
C8_Witness ==
    /\ post_in.t = "json"
    /\ post_in.body.t = "dict"
    /\ DOMAIN post_in.body.v = {"failure_code", "failure_description"}
    /\ post_in.body.v["failure_code"] = JInt(5)
    /\ post_in.body.v["failure_description"] = JStr(<<"b", "a", "d">>)
    /\ post_out.kind = "raise"

\* C9: failure classification is total: for every response mapping, also
\* one whose failure_code is null or not an integer, _post ends in success
\* or in one of the typed API errors (auth, throttle, not-connected, action).
C9_ClassificationTotal ==
    (post_out # NoOutcome /\ post_in.t = "json" /\ post_in.body.t = "dict")
    => \/ post_out.kind = "ok"
       \/ post_out.exc \in {"ConnectMyPoolAuthError",
                            "ConnectMyPoolThrottleError",
                            "ConnectMyPoolNotConnectedError",
                            "ConnectMyPoolActionError"}

\* C10: _post normalizes a list-shaped response before it classifies: the
\* empty list is the successful empty payload, and a list whose first
\* element is a mapping gives what that mapping alone gives, by the
\* reference table and by _post itself.
C10_ListNormalized ==
    (post_out # NoOutcome /\ post_in.t = "json" /\ post_in.body.t = "list")
    => IF post_in.body.v = <<>> THEN post_out = Ok(EmptyDict)
       ELSE post_in.body.v[1].t = "dict" =>
            /\ AgreesWithTable(post_in.body.v[1], post_out)
            /\ post_out = Post(Json(post_in.body.v[1]))

\* A list whose first element carries a failure code has raised the
\* throttle error.
C10_Witness ==
    /\ post_in.t = "json"
    /\ post_in.body.t = "list"
    /\ Len(post_in.body.v) = 2
    /\ post_in.body.v[1].t = "dict"
    /\ "failure_code" \in DOMAIN post_in.body.v[1].v
    /\ post_out.kind = "raise"
    /\ post_out.exc = "ConnectMyPoolThrottleError"

(***************************************************************************)
(* The action lock (SpecActions) and the polling cache (Spec).             *)
(***************************************************************************)
\* The coroutines whose request of the given operation is in flight.
InFlight(op) ==
    {t \in DOMAIN tasks : tasks[t].pc = "net" /\ tasks[t].op = op}

\* C1: however many pool_action calls run concurrently on the client, at
\* most one /api/poolaction request is in flight in every reachable state.
C1_OneActionInFlight == Cardinality(InFlight("pool_action")) <= 1

\* One action's request is in flight while two more actions wait for the
\* lock.
C1_Witness ==
    /\ InFlight("pool_action") # {}
    /\ Cardinality({t \in DOMAIN tasks : tasks[t].pc = "lock"}) = 2
    /\ action_lock.locked

\* The throttle failure, as the server sends it.
Throttled == Json(Failure(JInt(6)))

\* The step of coroutine t is a read of the endpoint that returns the
\* cached payload at once, issuing no request.
ServedFromCache(t, op, cached) ==
    /\ tasks' = tasks
    /\ last'.op = op
    /\ last'.how = "hit"
    /\ last'.out = Ok(cached)

\* C2: on a client on which no action has been performed, a pool_status
\* call with force=false that starts less than 60 time units after the call
\* whose payload is cached issues no request and returns that payload: the
\* two calls issue one request in total.
C2_SecondStatusFromCache ==
    [][\A t \in DOMAIN tasks :
         (/\ PoolStatus(t, FALSE)
          /\ action_done_at = NoTime
          /\ cached_status # None
          /\ clock - last_status_at < 60)
         => ServedFromCache(t, "pool_status", cached_status)]_vars

\* On a client without any action, a status call has been served from the
\* cache.
C2_Witness ==
    /\ last.op = "pool_status"
    /\ last.how = "hit"
    /\ ~last.force
    /\ action_done_at = NoTime
    /\ fast_poll_until = NoTime
    /\ \A t \in DOMAIN tasks : tasks[t].pc = "idle"

\* C3: pool_status and pool_config called with force=true issue a request
\* on every call, whatever the age of the cache entry and whether or not a
\* fast-poll window is active; and when the request is answered with data,
\* the call returns that data, not the payload cached before.
C3_ForceAlwaysFetches ==
    [][\A t \in DOMAIN tasks :
         /\ (tasks[t].pc = "idle" /\ tasks'[t].pc # "net")
            => ~(PoolStatus(t, TRUE) \/ PoolConfig(t, TRUE))
         /\ (tasks[t].pc = "net" /\ tasks[t].force /\ tasks'[t].pc = "idle")
            => \A d \in 1..MaxData :
                 (StatusReturn(t, Json(Data(d)))
                  \/ ConfigReturn(t, Json(Data(d))))
                 => (last'.how = "net" /\ last'.out = Ok(Data(d)))]_vars

\* A forced status call has just issued its request although the cache
\* entry is fresh and no fast-poll window is active.
C3_Witness ==
    \E t \in DOMAIN tasks :
      /\ tasks[t] = [pc |-> "net", op |-> "pool_status", force |-> TRUE,
                     now |-> clock]
      /\ \A u \in DOMAIN tasks \ {t} : tasks[u].pc = "idle"
      /\ last = NoCall
      /\ cached_status # None
      /\ clock - last_status_at < 60
      /\ fast_poll_until = NoTime

\* What a read returns when its request is answered with the throttle
\* failure: the cached payload if there is one, the throttle error if not.
ThrottleAnswered(cached) ==
    IF cached # None
    THEN last'.out = Ok(cached)
    ELSE /\ last'.out.kind = "raise"
         /\ last'.out.exc = "ConnectMyPoolThrottleError"

\* C4: when the request of a pool_status or pool_config call is answered
\* with the throttle failure (code 6), the call returns the endpoint's
\* cached payload if a cache entry exists and raises the throttle error if
\* and only if none exists, with force=true as with force=false.
C4_ThrottleFallback ==
    [][\A t \in DOMAIN tasks :
         /\ StatusReturn(t, Throttled) => ThrottleAnswered(cached_status)
         /\ ConfigReturn(t, Throttled) => ThrottleAnswered(cached_config)]_vars

\* A forced status call has returned the cached payload on a throttle
\* answer.
C4_Witness ==
    /\ last.op = "pool_status"
    /\ last.force
    /\ last.how = "fallback"
    /\ last.out = Ok(cached_status)

\* The call that ended in the latest step raised the throttle error.
RaisedThrottle(op) ==
    /\ last.op = op
    /\ last.out.kind = "raise"
    /\ last.out.exc = "ConnectMyPoolThrottleError"

\* C5: once a pool_status (resp. pool_config) request has succeeded, no
\* later pool_status (resp. pool_config) call on the client raises the
\* throttle error.
C5_NoThrottleAfterSuccess ==
    /\ read_succeeded.status => ~RaisedThrottle("pool_status")
    /\ read_succeeded.config => ~RaisedThrottle("pool_config")

\* After a config request succeeded, a later config call met a throttle
\* answer and returned the cached payload.
C5_Witness ==
    /\ read_succeeded.config
    /\ last.op = "pool_config"
    /\ last.how = "fallback"

\* C6: after a successful pool_action, every pool_status call with
\* force=false that starts less than 300 time units after the action
\* completed issues a request, even with a cache entry younger than
\* min_poll_seconds; once 300 time units have passed since the latest
\* successful action, a fresh entry is served from the cache again.
C6_FastPollWindow ==
    [][\A t \in DOMAIN tasks :
         (PoolStatus(t, FALSE) /\ action_done_at # NoTime)
         => IF clock - action_done_at < 300
            THEN tasks'[t].pc = "net"
            ELSE (cached_status # None /\ clock - last_status_at < 60)
                 => ServedFromCache(t, "pool_status", cached_status)]_vars

\* Inside the window of an action, a status call with force=false has just
\* issued its request although the cache entry is fresh.
C6_Witness ==
    \E t \in DOMAIN tasks :
      /\ tasks[t] = [pc |-> "net", op |-> "pool_status", force |-> FALSE,
                     now |-> clock]
      /\ \A u \in DOMAIN tasks \ {t} : tasks[u].pc = "idle"
      /\ last = NoCall
      /\ cached_status # None
      /\ clock - last_status_at < 60
      /\ action_done_at # NoTime
      /\ clock - action_done_at < 300

\* The history flag of the endpoint of the call that ended in the latest
\* step.
Predates(op) ==
    IF op = "pool_status" THEN predates_action.status
    ELSE predates_action.config

\* C7 as claimed: a pool_status or pool_config call never returns a cache
\* entry that was stored before the most recent successful pool_action
\* completed, neither by the freshness cache hit nor by the throttle
\* fallback.
C7_NoEntryOlderThanAction ==
    (last.op \in {"pool_status", "pool_config"}
     /\ last.how \in {"hit", "fallback"})
    => ~Predates(last.op)

\* C7 as amended: the freshness cache hit of pool_status and pool_config
\* never returns an entry that was stored before the most recent successful
\* pool_action completed (min_poll_seconds being at most 300).
C7_HitNotOlderThanAction ==
    (last.op \in {"pool_status", "pool_config"} /\ last.how = "hit")
    => ~Predates(last.op)

\* A status call has been served from the cache after a successful action
\* and the end of its fast-poll window.
C7_Witness ==
    /\ last.op = "pool_status"
    /\ last.how = "hit"
    /\ action_done_at # NoTime
    /\ clock - action_done_at >= 300

(***************************************************************************)
(* Errors on every path (SpecCalls) and the fast-poll deadline             *)
(* (SpecActions).                                                          *)
(***************************************************************************)
\* The request of coroutine t is answered with a and its call ends in this
\* step.
Answered(t, a) ==
    \/ StatusReturn(t, a)
    \/ ConfigReturn(t, a)
    \/ ActionReturn(t, a)
    \/ ActionStatusReturn(t, a)

\* C11: every transport-level failure of _post (timeout, connection error,
\* non-2xx status, a body that is no mapping after list normalisation) ends
\* the call, whichever operation made it, with the base ConnectMyPoolError
\* and none of the typed errors, in the step in which the one request
\* fails: the coroutine issues no second request.
C11_TransportErrorNoRetry ==
    [][\A t \in DOMAIN tasks :
         (tasks[t].pc = "net" /\ tasks'[t] # tasks[t])
         => \A a \in TransportFailures :
              Answered(t, a)
              => /\ tasks'[t] = Idle
                 /\ last'.op = tasks[t].op
                 /\ last'.how = "raise"
                 /\ last'.out.kind = "raise"
                 /\ last'.out.exc = "ConnectMyPoolError"]_vars

\* A status call whose request timed out has raised the transport error
\* although a cached payload exists.
C11_Witness ==
    /\ last.op = "pool_status"
    /\ last.how = "raise"
    /\ last.out = Post(TimedOut)
    /\ last.out.exc = "ConnectMyPoolError"
    /\ cached_status # None

\* C12: every pool_action whose request succeeds sets the fast-poll
\* deadline to the time of its completion plus 300, and every pool_action
\* whose request fails, with whatever error, leaves the deadline as it was.
C12_FastPollDeadline ==
    [][\A t \in DOMAIN tasks :
         (tasks[t].pc = "net" /\ tasks'[t] # tasks[t])
         => \A a \in AllAnswers :
              ActionReturn(t, a)
              => IF last'.out.kind = "ok"
                 THEN fast_poll_until' = clock + 300
                 ELSE fast_poll_until' = fast_poll_until]_vars

\* An action has succeeded after time has passed on the clock, and the
\* deadline is 300 after that moment.
C12_Witness ==
    /\ last.op = "pool_action"
    /\ last.out.kind = "ok"
    /\ clock > 0
    /\ action_done_at = clock
    /\ fast_poll_until = clock + 300

\* The failure payload with the integer code c, as the server sends it.
Rejected(c) == Json(Failure(JInt(c)))

\* The call that ends in this step raises the error class exc.
Raises(exc) ==
    /\ last'.how = "raise"
    /\ last'.out.kind = "raise"
    /\ last'.out.exc = exc

\* C13: every pool_action issues one request and ends with its answer; when
\* the request fails with the auth, throttle, not-connected, action or
\* transport error, the call raises that error: nothing is retried and
\* nothing is masked, not even a throttle error while both caches are
\* populated.
C13_ActionErrorsPropagate ==
    [][\A t \in DOMAIN tasks :
         (tasks[t].pc = "net" /\ tasks[t].op = "pool_action"
          /\ tasks'[t] # tasks[t])
         => /\ tasks'[t] = Idle
            /\ last'.op = "pool_action"
            /\ \A c \in {1, 3, 6, 7} :
                 ActionReturn(t, Rejected(c)) => Raises(RefClass(c))
            /\ \A a \in TransportFailures :
                 ActionReturn(t, a) => Raises("ConnectMyPoolError")]_vars

\* An action has raised the throttle error while the config and the status
\* cache are populated.
C13_Witness ==
    /\ last.op = "pool_action"
    /\ last.how = "raise"
    /\ last.out.exc = "ConnectMyPoolThrottleError"
    /\ cached_status # None
    /\ cached_config # None

(***************************************************************************)
(* The cycling of a channel to a mode (SpecCycle).                         *)
(***************************************************************************)
\* The mode an entity method is to reach: the number of the option's label
\* for async_select_option, Off (0) for async_turn_off.
TargetMode ==
    IF resolver.op = "turn_off" THEN JInt(0)
    ELSE CASE resolver.option = "Off" -> JInt(0)
           [] resolver.option = "Auto" -> JInt(1)
           [] resolver.option = "On" -> JInt(2)
           [] resolver.option = "Low Speed" -> JInt(3)
           [] resolver.option = "Medium Speed" -> JInt(4)
           [] resolver.option = "High Speed" -> JInt(5)
           [] OTHER -> None

\* The mode of the entity's channel in the snapshot, read off the payload.
ObservedMode ==
    IF coordinator_data = None
       \/ "channels" \notin DOMAIN coordinator_data.v
    THEN None
    ELSE coordinator_data.v["channels"].v[1].v["mode"]

\* async_select_option or async_turn_off stands at the head of iteration
\* i + 1, having sent i cycle actions.
AtLoopHead(i) ==
    /\ resolver.pc = "loop"
    /\ resolver.op \in {"select_option", "turn_off"}
    /\ resolver.i = i

\* The entity method returns in this step.
Succeeds ==
    /\ resolver'.pc = "done"
    /\ resolver'.out = Ok(None)

\* No request goes out in this step.
NoRequest ==
    /\ tasks' = tasks
    /\ \A t \in DOMAIN tasks : tasks[t].pc = "idle"

\* C14: when the mode read from the latest snapshot equals the desired mode
\* as the method is called, async_select_option and async_turn_off return
\* at once: no cycle action and no network request is issued.
C14_AlreadyInMode ==
    [][(AtLoopHead(0) /\ ObservedMode = TargetMode)
       => /\ Succeeds
          /\ NoRequest
          /\ resolver'.cycles = 0
          /\ resolver'.refreshes = 0]_vars

\* async_select_option has returned for the option the channel is in,
\* without a cycle action and without a refresh.
C14_Witness ==
    /\ resolver.pc = "done"
    /\ resolver.op = "select_option"
    /\ resolver.option = "On"
    /\ resolver.out = Ok(None)
    /\ resolver.cycles = 0
    /\ resolver.refreshes = 0
    /\ action_done_at = NoTime

\* C15: for every k from 1 to 8, when the observed mode first equals the
\* desired mode after k cycle actions, async_select_option and
\* async_turn_off have issued exactly k cycle actions and succeed.
C15_ReachedAfterKCycles ==
    [][\A k \in 1..8 :
         (AtLoopHead(k) /\ ObservedMode = TargetMode)
         => /\ Succeeds
            /\ resolver'.cycles = k]_vars

\* The error message names the option.
NamesOption(msg, option) == \E j \in 1..Len(msg) : msg[j] = option

\* The entity method raises the error of the exhausted loop in this step.
FailsUnreachable ==
    /\ resolver.pc # "done"
    /\ resolver'.pc = "done"
    /\ resolver'.out.kind = "raise"
    /\ resolver'.out.exc = "HomeAssistantError"
    /\ resolver'.out.msg = CouldNotReach(resolver.option)

\* C16: async_select_option sends a cycle action after each of its first
\* eight looks at the snapshot that do not show the desired mode; when the
\* desired mode has not been observed after eight cycle actions it fails
\* with the unreachable-mode error, which names the requested option, and
\* only then; it never sends a ninth cycle action.
C16_UnreachableAfterEight ==
    [][resolver.op = "select_option"
       => /\ resolver'.cycles <= 8
          /\ (resolver.pc = "loop" /\ resolver.i < 8
              /\ ObservedMode # TargetMode)
             => (resolver'.pc = "action"
                 /\ resolver'.cycles = resolver.cycles + 1)
          /\ (resolver.pc = "loop" /\ resolver.i = 8
              /\ ObservedMode # TargetMode)
             => (FailsUnreachable
                 /\ NamesOption(resolver'.out.msg, resolver.option)
                 /\ resolver'.cycles = 8
                 /\ NoRequest)
          /\ FailsUnreachable => (resolver.i = 8 /\ resolver.cycles = 8)]_vars

\* async_select_option has failed with the unreachable-mode error for a
\* mode the channel does not have, after eight cycle actions.
C16_Witness ==
    /\ resolver.pc = "done"
    /\ resolver.op = "select_option"
    /\ resolver.option = "High Speed"
    /\ resolver.out = HomeAssistantError(CouldNotReach("High Speed"))
    /\ resolver.cycles = 8
    /\ ObservedMode # JInt(5)

\* C17: the cycling always terminates: whatever the cycle of the channel
\* and whatever each request is answered with, async_select_option,
\* async_turn_on and async_turn_off, once called, end with success or an
\* error, having sent at most 8 cycle actions; and no call of the client
\* issues a second request after its first.
C17_ResolverTerminates ==
    /\ [](resolver.cycles <= 8)
    /\ (resolver.pc # "idle") ~> (resolver.pc = "done")
    /\ [][\A t \in DOMAIN tasks :
            tasks[t].pc = "net" => tasks'[t].pc \in {"net", "idle"}]_vars

\* async_turn_on has ended after eight cycle actions.
C17_Witness ==
    /\ resolver.pc = "done"
    /\ resolver.op = "turn_on"
    /\ resolver.cycles = 8
    /\ resolver.out.kind \in {"ok", "raise"}

\* The messages of the errors the methods raise on their own.
OwnMessages ==
    {CouldNotTurnOff, CouldNotTurnOn}
    \cup {CouldNotReach(c[2]) : c \in ResolverCalls}
    \cup {UnsupportedOption(c[2]) : c \in ResolverCalls}

\* The method has ended in the except clause around a cycle action that the
\* client failed with one of its errors.
FailedMidLoop ==
    /\ resolver.pc = "done"
    /\ last.op = "pool_action"
    /\ last.out.kind = "raise"
    /\ last.out.exc \in ApiErrors

\* C18: when the cycle action of an iteration fails with an error of the
\* client, the method ends in that step: what it raises carries the text of
\* that error and is none of the method's own errors, the counts of cycle
\* actions and of refreshes stay as they were, no request is in flight, and
\* the method takes no further step.
C18_ActionErrorStopsLoop ==
    /\ [][\A a \in CycleAnswers :
            (/\ resolver.pc = "action"
             /\ ActionAnswered(a)
             /\ last'.out.kind = "raise"
             /\ last'.out.exc \in ApiErrors)
            => /\ resolver'.pc = "done"
               /\ resolver'.out = HomeAssistantError(last'.out.msg)
               /\ resolver'.out.msg \notin OwnMessages
               /\ resolver'.i = resolver.i
               /\ resolver'.cycles = resolver.cycles
               /\ resolver'.refreshes = resolver.refreshes
               /\ UNCHANGED coordinator_data]_vars
    /\ [](FailedMidLoop =>
            /\ \A t \in DOMAIN tasks : tasks[t].pc = "idle"
            /\ ~ENABLED CycleNext)

\* A cycle action fails after at least one full iteration: the method has
\* ended with the text of the client's error.
C18_Witness ==
    /\ FailedMidLoop
    /\ resolver.i >= 1
    /\ resolver.cycles = resolver.i + 1
    /\ resolver.refreshes >= 1
    /\ resolver.out = HomeAssistantError(last.out.msg)
    /\ resolver.out.msg \notin OwnMessages

(***************************************************************************)
(* Reads next to the action lock (SpecOverlap) and the frame of pool_action *)
(* (SpecCalls).                                                            *)
(***************************************************************************)
\* The three reads of the client.
ReadOps == {"pool_status", "pool_config", "pool_action_status"}

\* A pool_action holds the action lock and its request is in flight.
WriteInFlight ==
    /\ action_lock.locked
    /\ \E w \in DOMAIN tasks :
          tasks[w].pc = "net" /\ tasks[w].op = "pool_action"

\* Coroutine t has the request of a read in flight.
ReadInFlight(t) == tasks[t].pc = "net" /\ tasks[t].op \in ReadOps

\* Coroutine t calls a read.
ReadCall(t) ==
    \/ \E force \in BOOLEAN : PoolStatus(t, force) \/ PoolConfig(t, force)
    \/ PoolActionStatus(t)

\* The request of the read of coroutine t is answered.
ReadReturn(t) ==
    \E a \in OverlapAnswers :
        \/ StatusReturn(t, a)
        \/ ConfigReturn(t, a)
        \/ ActionStatusReturn(t, a)

\* C19: whatever the state of the action lock and of the other coroutines,
\* a coroutine that is idle can call each read and, asked to fetch, has its
\* request in flight after that step; a read whose request is in flight
\* can take its answer and end; and no step of a read touches the lock or
\* queues for it.
C19_ReadsIgnoreLock ==
    /\ [](\A t \in DOMAIN tasks :
            tasks[t].pc = "idle" =>
              /\ ENABLED (PoolStatus(t, TRUE) /\ tasks'[t].pc = "net")
              /\ ENABLED (PoolConfig(t, TRUE) /\ tasks'[t].pc = "net")
              /\ ENABLED (PoolActionStatus(t) /\ tasks'[t].pc = "net")
              /\ ENABLED PoolStatus(t, FALSE)
              /\ ENABLED PoolConfig(t, FALSE))
    /\ [](\A t \in DOMAIN tasks :
            ReadInFlight(t) =>
              ENABLED (ReadReturn(t) /\ tasks'[t].pc = "idle"))
    /\ [][\A t \in DOMAIN tasks :
            (\/ tasks[t].pc = "idle" /\ ReadCall(t)
             \/ ReadInFlight(t) /\ ReadReturn(t))
            => /\ action_lock' = action_lock
               /\ tasks'[t].pc \in {"idle", "net"}]_vars

\* A pool_action holds the lock with its request in flight, and the other
\* two coroutines each have the request of a read in flight.
C19_Witness ==
    /\ WriteInFlight
    /\ \E r, s \in DOMAIN tasks :
          r # s /\ ReadInFlight(r) /\ ReadInFlight(s)

\* Coroutine t takes a step of pool_action: the call, the lock, the answer.
ActionStep(t) ==
    /\ tasks'[t] # tasks[t]
    /\ tasks[t].op = "pool_action" \/ tasks'[t].op = "pool_action"

\* The step ends a read of the given operation with the payload of its
\* own request.
ReadSucceeds(op) ==
    /\ last'.op = op
    /\ last'.how = "net"
    /\ last'.out.kind = "ok"

\* C20: no step of pool_action, accepted or failed, changes a cached
\* payload or a cache timestamp; the status entry changes only in the step
\* in which a pool_status request succeeds, the config entry only in the
\* step in which a pool_config request succeeds.
C20_ActionLeavesCaches ==
    /\ [][\A t \in DOMAIN tasks : ActionStep(t) => UNCHANGED cacheVars]_vars
    /\ [][<<cached_status, last_status_at>>' # <<cached_status, last_status_at>>
             => /\ ReadSucceeds("pool_status")
                /\ cached_status' = last'.out.payload]_vars
    /\ [][<<cached_config, last_config_at>>' # <<cached_config, last_config_at>>
             => /\ ReadSucceeds("pool_config")
                /\ cached_config' = last'.out.payload]_vars

\* An accepted pool_action has just ended with both caches filled before it
\* and still filled.
C20_Witness ==
    /\ last.op = "pool_action"
    /\ last.out.kind = "ok"
    /\ predates_action = [status |-> TRUE, config |-> TRUE]
    /\ cached_status # None /\ last_status_at # NoTime
    /\ cached_config # None /\ last_config_at # NoTime

(***************************************************************************)
(* Cancellation and failure of an action in flight (SpecCancel).           *)
(***************************************************************************)
\* Coroutine t has the request of a pool_action in flight.
ActionInFlight(t) == tasks[t].pc = "net" /\ tasks[t].op = "pool_action"

\* C21: the step in which a pool_action in flight is cancelled or fails
\* leaves the action lock free and the fast-poll deadline as it was; the
\* lock is held only while the request of a pool_action is in flight, and
\* a free lock goes to the next pool_action: to the first coroutine of the
\* queue, or with an empty queue to any coroutine that calls pool_action,
\* and that coroutine has its request in flight after the step.
C21_LockReleasedOnAbort ==
    /\ [][\A t \in DOMAIN tasks :
            (ActionInFlight(t) /\ tasks'[t].pc = "idle"
               /\ last'.out.kind # "ok")
            => /\ ~action_lock'.locked
               /\ UNCHANGED fast_poll_until]_vars
    /\ [](action_lock.locked <=> \E t \in DOMAIN tasks : ActionInFlight(t))
    /\ [](\A t \in DOMAIN tasks :
            (~action_lock.locked /\ tasks[t].pc = "idle"
               /\ action_lock.waiters = <<>>)
            => ENABLED (PoolAction(t) /\ ActionInFlight(t)'
                          /\ action_lock'.locked))
    /\ [](\A t \in DOMAIN tasks :
            (~action_lock.locked /\ action_lock.waiters # <<>>
               /\ t = Head(action_lock.waiters))
            => ENABLED (LockAcquired(t) /\ ActionInFlight(t)'
                          /\ action_lock'.locked))

\* The first pool_action of the client has just been cancelled in flight
\* while another one queues for the lock: the lock is free and no
\* fast-poll deadline is set.
C21_Witness ==
    /\ last.op = "pool_action"
    /\ last.out = Cancelled
    /\ ~action_lock.locked
    /\ action_lock.waiters # <<>>
    /\ fast_poll_until = NoTime

(***************************************************************************)
(* The coordinator and the setup of the entry (SpecSetup).                 *)
(***************************************************************************)
\* C22: once the coordinator is built, its refresh interval is the larger
\* of 60 seconds and the configured scan interval: never below 60, and 60
\* for an entry that configures none.
C22_IntervalFloor ==
    update_interval # NoTime =>
        /\ update_interval >= 60
        /\ \/ update_interval = 60
              /\ PyInt(ScanInterval).v <= 60
           \/ update_interval = PyInt(ScanInterval).v
              /\ PyInt(ScanInterval).v > 60
        /\ entry_options = EmptyDict => update_interval = 60

\* The coordinator of an entry configured below the floor has been built.
C22_Witness ==
    /\ update_interval = 60
    /\ "scan_interval" \in DOMAIN entry_options.v
    /\ PyInt(ScanInterval).v < 60

\* The text s begins with the text p.
StartsWith(s, p) == Len(s) >= Len(p) /\ SubSeq(s, 1, Len(p)) = p

\* The step ends the pool_status call of a refresh of the coordinator.
RefreshEnds ==
    /\ last'.op = "pool_status"
    /\ \/ setup.pc \in {"first_refresh", "refreshing"}
       \/ setup.pc = "loaded" /\ setup'.pc = "loaded"

\* C23: a refresh whose pool_status call raised ends in UpdateFailed and in
\* nothing else; its text begins with "Throttled: " exactly for a throttle
\* error and with "Pool not connected: " exactly for a not-connected
\* error; a refresh whose pool_status call returned, from the network, from
\* a fresh cache or from the cache in place of a throttle error, ends with
\* that payload and no failure.
C23_OnlyUpdateFailed ==
    /\ [][RefreshEnds =>
            LET out == last'.out
                update == last_update'
            IN /\ out.kind = "ok" => update = out
               /\ last'.how = "fallback" =>
                     update = Ok(cached_status) /\ cached_status # None
               /\ out.kind = "raise" =>
                     /\ update.kind = "raise"
                     /\ update.exc = "UpdateFailed"
                     /\ StartsWith(update.msg, <<"Throttled: ">>)
                          <=> out.exc = "ConnectMyPoolThrottleError"
                     /\ StartsWith(update.msg, <<"Pool not connected: ">>)
                          <=> out.exc = "ConnectMyPoolNotConnectedError"]_vars
    /\ [](last_update.kind = "raise" => last_update.exc = "UpdateFailed")

\* A scheduled refresh of a loaded entry has just failed with the
\* controller not connected, although a cached status exists.
C23_Witness ==
    /\ setup.pc = "loaded"
    /\ cached_status # None
    /\ last.op = "pool_status"
    /\ last.out.kind = "raise"
    /\ last.out.exc = "ConnectMyPoolNotConnectedError"
    /\ last_update =
          Raise("UpdateFailed", <<"Pool not connected: ">> \o last.out.msg)

\* C24: when the config load or the first status refresh of
\* async_setup_entry fails, the setup ends in ConfigEntryAuthFailed for an
\* authentication failure of the API and in ConfigEntryNotReady for every
\* other failure; the config flow's step reports invalid_auth for an
\* authentication failure and cannot_connect for any other error of the
\* client.
C24_AuthFailureIsTerminal ==
    [][(setup.pc \in {"config", "first_refresh"} /\ setup'.pc = "done"
          /\ last'.out.kind = "raise")
       => IF setup.op = "setup_entry"
          THEN /\ setup'.out.kind = "raise"
               /\ setup'.out.exc =
                     IF last'.out.exc = "ConnectMyPoolAuthError"
                     THEN "ConfigEntryAuthFailed"
                     ELSE "ConfigEntryNotReady"
          ELSE /\ setup'.out.kind = "form"
               /\ last'.out.exc = "ConnectMyPoolAuthError"
                    => setup'.out.errors = "invalid_auth"
               /\ last'.out.exc \in ApiErrors
                      \ {"ConnectMyPoolAuthError"}
                    => setup'.out.errors = "cannot_connect"]_vars

(***************************************************************************)
(* Failures and the two caches of the reads (SpecCalls, Spec).             *)
(***************************************************************************)
\* The request of the read of coroutine t is answered with a.
ReadAnswered(t, a) == StatusReturn(t, a) \/ ConfigReturn(t, a)

\* The step ends a read of coroutine t whose request was in flight.
ReadEnds(t) ==
    /\ tasks[t].pc = "net"
    /\ tasks[t].op \in {"pool_status", "pool_config"}
    /\ tasks'[t].pc = "idle"

\* C25: when the request of a pool_status or pool_config call fails with
\* an error other than the throttle error, the call raises that error,
\* with or without a cache entry, and no cached payload and no cache
\* timestamp changes.
C25_OtherErrorsNotMasked ==
    [][\A t \in DOMAIN tasks :
         ReadEnds(t) =>
           \A a \in AllAnswers :
             (/\ Post(a).kind = "raise"
              /\ Post(a).exc # "ConnectMyPoolThrottleError"
              /\ ReadAnswered(t, a))
             => /\ last'.op = tasks[t].op
                /\ last'.how = "raise"
                /\ last'.out = Post(a)
                /\ UNCHANGED cacheVars]_vars

\* A pool_status call has just raised an authentication error although a
\* cached status exists.
C25_Witness ==
    /\ last.op = "pool_status"
    /\ last.how = "raise"
    /\ last.out.exc = "ConnectMyPoolAuthError"
    /\ cached_status # None
    /\ last_status_at # NoTime

\* The cache entry of a read endpoint: its payload and its timestamp.
EntryOf(op) ==
    IF op = "pool_status" THEN <<cached_status, last_status_at>>
    ELSE <<cached_config, last_config_at>>
OtherRead(op) == IF op = "pool_status" THEN "pool_config" ELSE "pool_status"

\* Coroutine t takes a step of the read op: the call or the answer.
ReadStep(t, op) ==
    \/ last'.op = op /\ tasks[t].pc = "idle" /\ tasks'[t] = tasks[t]
    \/ tasks[t].pc = "idle" /\ tasks'[t].pc = "net" /\ tasks'[t].op = op
    \/ tasks[t].pc = "net" /\ tasks[t].op = op /\ tasks'[t].pc = "idle"

\* C26: a step of pool_status leaves the config entry alone and a step of
\* pool_config the status entry; whether a call returns its cache at once
\* or issues a request, and whether a throttle error ends in the cached
\* payload or is raised, is decided by the entry of its own endpoint
\* alone, whatever the other entry holds.
C26_CachesIndependent ==
    [][\A op \in {"pool_status", "pool_config"} :
         \A t \in DOMAIN tasks :
           ReadStep(t, op) =>
             LET own == EntryOf(op)
             IN /\ EntryOf(OtherRead(op))' = EntryOf(OtherRead(op))
                /\ (last'.op = op /\ last'.how = "hit") =>
                      /\ CacheFresh(last'.force, own[1], own[2], clock)
                      /\ last'.out = Ok(own[1])
                /\ (tasks[t].pc = "idle" /\ tasks'[t].pc = "net") =>
                      ~CacheFresh(tasks'[t].force, own[1], own[2], clock)
                /\ (last'.op = op /\ last'.how = "fallback") =>
                      own[1] # None /\ last'.out = Ok(own[1])
                /\ (/\ last'.op = op
                    /\ last'.how = "raise"
                    /\ last'.out.exc = "ConnectMyPoolThrottleError")
                   => own[1] = None]_vars

\* A pool_status call has just raised the throttle error: no status is
\* cached, while a config is.
C26_Witness ==
    /\ last.op = "pool_status"
    /\ last.how = "raise"
    /\ last.out.exc = "ConnectMyPoolThrottleError"
    /\ cached_status = None
    /\ cached_config # None

\* The entry of the read op is stale now: a call without force does not
\* return it.
Stale(op) == ~CacheFresh(FALSE, EntryOf(op)[1], EntryOf(op)[2], clock)

\* C29: the step in which a read returns its cached payload in place of a
\* throttle error changes no cached payload and no cache timestamp, and
\* what it returns is the cached payload; after it, whenever that entry is
\* stale, a call of the same read without force issues a request.
C29_FallbackKeepsEntry ==
    /\ [][last'.how = "fallback" =>
            /\ UNCHANGED cacheVars
            /\ last'.out = Ok(EntryOf(last'.op)[1])]_vars
    /\ [](\A t \in DOMAIN tasks :
            (last.how = "fallback" /\ tasks[t].pc = "idle"
               /\ Stale(last.op))
            => IF last.op = "pool_status"
               THEN ENABLED (PoolStatus(t, FALSE) /\ tasks'[t].pc = "net")
               ELSE ENABLED (PoolConfig(t, FALSE) /\ tasks'[t].pc = "net"))

\* A pool_status call without force has just returned, in place of a
\* throttle error, the status stored two steps of the clock ago: the entry
\* is stale still.
C29_Witness ==
    /\ last.op = "pool_status"
    /\ last.how = "fallback"
    /\ ~last.force
    /\ last_status_at # NoTime
    /\ clock - last_status_at >= 2 * TickStep
    /\ Stale("pool_status")

(***************************************************************************)
(* The redaction of the diagnostics (SpecDiag).                            *)
(***************************************************************************)
\* The text c occurs in the JSON value v, as a value or as a key's value
\* at any depth.
RECURSIVE Contains(_, _)
Contains(v, c) ==
    CASE v.t = "str" -> v.v = c
      [] v.t = "dict" -> \E k \in DOMAIN v.v : Contains(v.v[k], c)
      [] v.t = "list" -> \E i \in 1..Len(v.v) : Contains(v.v[i], c)
      [] OTHER -> FALSE

\* The value v with every value under pool_api_code replaced by the code c:
\* the same installation with another API code.
RECURSIVE WithCode(_, _)
WithCode(v, c) ==
    CASE v.t = "dict" ->
           JDict([k \in DOMAIN v.v |->
                    IF k = CONF_POOL_API_CODE THEN JStr(c)
                    ELSE WithCode(v.v[k], c)])
      [] v.t = "list" -> JList([i \in 1..Len(v.v) |-> WithCode(v.v[i], c)])
      [] OTHER -> v

\* The sub-values of v found under the key pool_api_code, at any depth.
RECURSIVE UnderCodeKey(_)
UnderCodeKey(v) ==
    CASE v.t = "dict" ->
           UNION {IF k = CONF_POOL_API_CODE THEN {v.v[k]}
                  ELSE UnderCodeKey(v.v[k]) : k \in DOMAIN v.v}
      [] v.t = "list" -> UNION {UnderCodeKey(v.v[i]) : i \in 1..Len(v.v)}
      [] OTHER -> {}

\* C27: the diagnostics contain no API code; in the entry data, the config
\* and the last status every value under pool_api_code, at any depth, is
\* the marker; and the same installation with another API code gives the
\* same diagnostics.
C27_ApiCodeRedacted ==
    diag_out # None =>
        /\ \A c \in ApiCodes : ~Contains(diag_out, c)
        /\ \A part \in {diag_out.v.entry.v.data, diag_out.v.config,
                         diag_out.v.last_status} :
              UnderCodeKey(part) \subseteq {JStr(REDACTED)}
        /\ \A c \in ApiCodes :
              Diagnostics([diag_in EXCEPT
                             !.data = WithCode(@, c),
                             !.config = WithCode(@, c),
                             !.coordinator = WithCode(@, c)]) = diag_out

\* The diagnostics of a loaded installation whose config holds the API
\* code two mappings deep and whose status holds it inside a list.
C27_Witness ==
    /\ diag_out # None
    /\ diag_in.config # None
    /\ diag_in.config.t = "dict"
    /\ "sub" \in DOMAIN diag_in.config.v
    /\ diag_in.config.v["sub"].t = "dict"
    /\ CONF_POOL_API_CODE \in DOMAIN diag_in.config.v["sub"].v
    /\ diag_in.coordinator.t = "list"
    /\ Contains(diag_in.coordinator, <<"A">>)
    /\ Contains(diag_out.v.config, REDACTED)

(***************************************************************************)
(* The refresh after an action (SpecEntity).                               *)
(***************************************************************************)
\* C28: a method that has ended after an accepted action of its own has
\* asked for a refresh; the refresh comes after the settle delay, and its
\* pool_status call, made without force, issues a request while the
\* fast-poll window of the action is open, whatever the age of the cached
\* status; a method that ends with a failed action asks for no refresh
\* after it.
C28_RefreshAfterAction ==
    /\ [](resolver.pc = "done" /\ resolver.i >= 1
            => resolver.refreshes >= 1)
    /\ [][resolver.pc = "sleep" =>
            clock' > clock /\ resolver'.pc = "refresh"]_vars
    /\ [][resolver.pc = "refresh" =>
            /\ FastPollActive
            /\ resolver'.pc = "refreshing"
            /\ \E t \in DOMAIN tasks :
                  /\ tasks'[t].pc = "net"
                  /\ tasks'[t].op = "pool_status"
                  /\ ~tasks'[t].force]_vars
    /\ [][(resolver.pc = "action" /\ last'.out.kind = "raise") =>
            /\ resolver'.pc = "done"
            /\ resolver'.refreshes = resolver.refreshes]_vars

(***************************************************************************)
(* ChannelSwitch.async_turn_on (SpecCycle).                                *)
(***************************************************************************)
\* async_turn_on stands at the head of iteration i + 1, or after the loop
\* for i = 8, having sent i cycle actions.
AtTurnOnHead(i) ==
    /\ resolver.pc = "loop"
    /\ resolver.op = "turn_on"
    /\ resolver.i = i
    /\ resolver.cycles = i

\* The snapshot shows the channel in a mode other than Off.
ObservedOn == ObservedMode # None /\ ObservedMode # JInt(0)

\* C30: whenever async_turn_on reads a mode other than Off, Auto included,
\* as it is called or after any of up to 8 cycle actions, it returns
\* without a further request; while the mode is Off or unknown it sends
\* the next cycle action, 8 at most; after the 8th it raises if the mode
\* is Off or unknown still; and whenever it has raised, the mode in the
\* snapshot is Off or unknown.
C30_TurnOnAnyNonOff ==
    /\ [][\A i \in 0..8 :
            (AtTurnOnHead(i) /\ ObservedOn)
            => /\ Succeeds
               /\ NoRequest
               /\ resolver'.cycles = i]_vars
    /\ [][\A i \in 0..7 :
            (AtTurnOnHead(i) /\ ~ObservedOn)
            => /\ resolver'.pc = "action"
               /\ resolver'.cycles = i + 1
               /\ \E t \in DOMAIN tasks :
                     tasks'[t].pc = "net" /\ tasks'[t].op = "pool_action"]_vars
    /\ [][(AtTurnOnHead(8) /\ ~ObservedOn)
            => /\ resolver'.pc = "done"
               /\ resolver'.out = HomeAssistantError(CouldNotTurnOn)
               /\ NoRequest]_vars
    /\ [](resolver.op = "turn_on" =>
            /\ resolver.cycles <= 8
            /\ resolver.pc = "loop" => resolver.cycles = resolver.i
            /\ (resolver.pc = "done" /\ resolver.out.kind = "raise")
                 => ~ObservedOn)

\* async_turn_on has returned after its 8th cycle action: the mode read
\* after the loop is other than Off.
C30_Witness ==
    /\ resolver.pc = "done"
    /\ resolver.op = "turn_on"
    /\ resolver.i = 8
    /\ resolver.cycles = 8
    /\ resolver.out = Ok(None)
    /\ ObservedOn

(***************************************************************************)
(* The friendly names (SpecNames).                                         *)
(***************************************************************************)
\* The device lists of a config that have items.
FilledLists(cfg) ==
    {j \in DOMAIN DEVICE_LISTS :
        /\ DEVICE_LISTS[j].list_key \in DOMAIN cfg.v
        /\ cfg.v[DEVICE_LISTS[j].list_key].t = "list"
        /\ cfg.v[DEVICE_LISTS[j].list_key].v # <<>>}

\* The items of the list of DEVICE_LISTS[j] in the config as it was left.
NamedItems(j) == names_out.v[DEVICE_LISTS[j].list_key].v

\* C31: after _apply_unique_friendly_names every item of each device list
\* has a friendly_name, a string that is not empty, the names within one
\* list are pairwise distinct, and the items are otherwise as they were.
C31_FriendlyNamesDistinct ==
    names_out # None =>
        /\ DOMAIN names_out.v = DOMAIN names_in.v
        /\ \A j \in FilledLists(names_in) :
              LET before == names_in.v[DEVICE_LISTS[j].list_key].v
                  after == NamedItems(j)
              IN /\ Len(after) = Len(before)
                 /\ \A i \in DOMAIN after :
                       /\ "friendly_name" \in DOMAIN after[i].v
                       /\ after[i].v["friendly_name"].t = "str"
                       /\ after[i].v["friendly_name"].v # <<>>
                       /\ \A k \in DOMAIN before[i].v :
                             after[i].v[k] = before[i].v[k]
                 /\ \A i, k \in DOMAIN after :
                       i # k => after[i].v["friendly_name"]
                                 # after[k].v["friendly_name"]

\* Three channels were named of which the first is called "A (dup)" and
\* the two others "A", with neither number nor function: the third is
\* given the second numbered name.
C31_Witness ==
    /\ names_out # None
    /\ FilledLists(names_in) = DOMAIN DEVICE_LISTS
    /\ Len(NamedItems(1)) = 3
    /\ NamedItems(1)[1].v["friendly_name"]
         = JStr(<<"A", " ", "(", "d", "u", "p", ")">>)
    /\ NamedItems(1)[2].v["friendly_name"]
         = JStr(<<"A", " ", "(", "d", "u", "p", ")", " ", "2">>)
    /\ NamedItems(1)[3].v["friendly_name"]
         = JStr(<<"A", " ", "(", "d", "u", "p", ")", " ", "3">>)

(***************************************************************************)
(* The channel's mode at the controller and the cycle actions (SpecCycle). *)
(***************************************************************************)
\* The channel is, at the controller, in the mode that async_select_option
\* or async_turn_off is to reach.
AtTarget ==
    /\ resolver.op \in {"select_option", "turn_off"}
    /\ JInt(channel_mode) = TargetMode

\* C32: async_select_option and async_turn_off send no cycle action while
\* the channel is, at the controller, in the desired mode, whatever the
\* refreshes of the loop were answered with.
C32_NoCycleAtTarget ==
    [][(resolver.pc = "loop" /\ AtTarget) => resolver'.pc # "action"]_vars

(***************************************************************************)
(* Reads that overlap one another (Spec).                                  *)
(***************************************************************************)
\* The request of coroutine t for op is answered in this step and its
\* response is stored in the cache.
Stores(t, op) ==
    /\ tasks[t].pc = "net"
    /\ tasks[t].op = op
    /\ tasks'[t].pc = "idle"
    /\ last'.op = op
    /\ last'.how = "net"

\* C33: the timestamp of either cache entry never decreases, and a
\* response is stored only if its request was started no earlier than the
\* request whose response is in the cache.
C33_CacheNeverGoesBack ==
    /\ [][/\ last_status_at' >= last_status_at
           /\ last_config_at' >= last_config_at]_vars
    /\ [][\A t \in DOMAIN tasks :
            /\ Stores(t, "pool_status") => tasks[t].now >= last_status_at
            /\ Stores(t, "pool_config") => tasks[t].now >= last_config_at]_vars

\* Coroutine u is suspended in the request of a pool_status call without
\* force that began less than min_poll_seconds ago and outside every
\* fast-poll window there has been.
StatusInFlight(u) ==
    /\ tasks[u].pc = "net"
    /\ tasks[u].op = "pool_status"
    /\ ~tasks[u].force
    /\ clock - tasks[u].now < min_poll_seconds
    /\ (fast_poll_until = NoTime \/ tasks[u].now >= fast_poll_until)

\* C34: outside a fast-poll window a pool_status call without force issues
\* no request while the request of another such call, begun less than
\* min_poll_seconds before, is in flight.
C34_OneStatusRequest ==
    [][\A t \in DOMAIN tasks :
         (/\ ~FastPollActive
          /\ tasks[t].pc = "idle"
          /\ tasks'[t].pc = "net"
          /\ tasks'[t].op = "pool_status"
          /\ ~tasks'[t].force)
         => \A u \in DOMAIN tasks \ {t} : ~StatusInFlight(u)]_vars

(***************************************************************************)
(* The cache hit after a write (SpecWindow).                               *)
(***************************************************************************)
\* The timestamp of the cache entry of a read.
StampOf(op) ==
    IF op = "pool_status" THEN last_status_at ELSE last_config_at

\* C35: with min_poll_seconds at most 300, a pool_status or pool_config
\* call that returns from the freshness test returns an entry whose
\* timestamp is not earlier than the completion of the latest successful
\* pool_action.
C35_HitStampedAfterAction ==
    (/\ min_poll_seconds <= FAST_POLL_SECONDS
     /\ last.op \in {"pool_status", "pool_config"}
     /\ last.how = "hit"
     /\ action_done_at # NoTime)
    => StampOf(last.op) >= action_done_at

\* After the end of the fast-poll window a pool_status call without force
\* has found an entry stamped before the action completed, of a read that
\* began before and was answered after it, and has issued a request.
C35_Witness ==
    /\ action_done_at > 0
    /\ fast_poll_until # NoTime
    /\ clock >= fast_poll_until
    /\ cached_status # None
    /\ last_status_at < action_done_at
    /\ ~predates_action.status
    /\ \E t \in DOMAIN tasks :
          /\ tasks[t].pc = "net"
          /\ tasks[t].op = "pool_status"
          /\ ~tasks[t].force
          /\ tasks[t].now = clock

(***************************************************************************)
(* The arguments a cached payload was fetched with (SpecArgs).             *)
(***************************************************************************)
\* The call that ended in the latest step returned the cached payload: by
\* the freshness test or by the throttle fallback.
FromCache(op) ==
    /\ last.op = op
    /\ last.how \in {"hit", "fallback"}

\* C36: a payload that pool_status returns from the cache was fetched with
\* the pool_api_code and the temperature_scale of the call that returns
\* it, and one that pool_config returns from the cache with the
\* pool_api_code of the call.
C36_CachedForTheseArguments ==
    /\ FromCache("pool_status") => fetched_with.status = last_args
    /\ FromCache("pool_config") =>
          fetched_with.config.pool_api_code = last_args.pool_api_code

(***************************************************************************)
(* Every action gets its turn (SpecActionsLive).                           *)
(***************************************************************************)
\* C37: with every request answered in the end, a pool_action that waits
\* for the lock gets it and issues its request, and a pool_action whose
\* request is in flight ends, whether the actions before it were accepted
\* or failed.
C37_ActionCompletes ==
    \A t \in ActionTasks :
        /\ (tasks[t].pc = "lock")
             ~> (tasks[t].pc = "net" /\ tasks[t].op = "pool_action")
        /\ (tasks[t].pc = "net" /\ tasks[t].op = "pool_action")
             ~> (tasks[t].pc = "idle")

\* An action has just failed while two others wait for the lock.
C37_Witness ==
    /\ last.op = "pool_action"
    /\ last.how = "raise"
    /\ ~action_lock.locked
    /\ Len(action_lock.waiters) = 2
    /\ \A i \in 1..2 : tasks[action_lock.waiters[i]].pc = "lock"

(***************************************************************************)
(* C38: async_set_hvac_mode of the heater's climate entity. With the       *)
(* heat/cool selection enabled, HEAT and COOL send the heat/cool action    *)
(* (value 1 for HEAT, 0 for COOL) before the action that switches the      *)
(* heater on, and the latter is not sent when the former has failed; COOL  *)
(* without the heat/cool selection fails and sends nothing; OFF sends the  *)
(* action that switches the heater off and no other.                      *)
(***************************************************************************)
HeatCoolValue == IF climate.hvac_mode = "heat" THEN "1" ELSE "0"
SelectThenOn ==
    <<[action_code |-> ACTION_SET_HEAT_COOL, value |-> HeatCoolValue],
      [action_code |-> ACTION_SET_HEATER_MODE, value |-> "1"]>>
HeaterOff == <<[action_code |-> ACTION_SET_HEATER_MODE, value |-> "0"]>>
IsPrefix(s, full) == Len(s) <= Len(full) /\ s = SubSeq(full, 1, Len(s))
C38_HvacModeActions ==
    resolver.op = "set_hvac_mode" =>
      /\ (climate.heat_cool_enabled /\ climate.hvac_mode \in {"heat", "cool"})
         => /\ IsPrefix(climate.sent, SelectThenOn)
            /\ Len(climate.sent) = 2 => resolver.i >= 1
            /\ resolver.out = Ok(None) => climate.sent = SelectThenOn
      /\ (~climate.heat_cool_enabled /\ climate.hvac_mode = "cool")
         => /\ climate.sent = <<>>
            /\ resolver.pc = "done"
            /\ resolver.out = HomeAssistantError(CoolingNotEnabled)
      /\ climate.hvac_mode = "off"
         => /\ IsPrefix(climate.sent, HeaterOff)
            /\ resolver.out = Ok(None) => climate.sent = HeaterOff
C38_Witness ==
    /\ resolver.op = "set_hvac_mode"
    /\ resolver.pc = "done"
    /\ resolver.out = Ok(None)
    /\ climate.heat_cool_enabled
    /\ climate.hvac_mode = "cool"
    /\ climate.sent = SelectThenOn

(***************************************************************************)
(* C39: the fast-poll deadline never decreases, whatever the operations    *)
(* and their interleaving: only a pool_action whose request succeeded      *)
(* changes it, to a value not below the one before, and pool_status,       *)
(* pool_config and pool_action_status neither change nor clear it.         *)
(***************************************************************************)
ActionSucceeded ==
    /\ last'.op = "pool_action"
    /\ last'.out.kind = "ok"
DeadlineSet == fast_poll_until # NoTime
C39_DeadlineNeverDecreases ==
    [][/\ DeadlineSet =>
            fast_poll_until' # NoTime /\ fast_poll_until' >= fast_poll_until
       /\ fast_poll_until' # fast_poll_until => ActionSucceeded
       /\ last'.op \in {"pool_status", "pool_config", "pool_action_status"}
            => fast_poll_until' = fast_poll_until]_vars
C39_Witness ==
    /\ last.op = "pool_action"
    /\ last.out.kind = "ok"
    /\ action_done_at = 2 * TickStep
    /\ fast_poll_until = action_done_at + FAST_POLL_SECONDS
    /\ \E t \in DOMAIN tasks :
          tasks[t].pc = "net" /\ tasks[t].op = "pool_status"
             /\ tasks[t].now < action_done_at

=============================================================================
